---- MODULE Spec2Model ----
(***************************************************************************)
(* Event registry of LibVMI 0.10.1 (libvmi/events.c): the three tables     *)
(* mem_events, reg_events and ss_events of one instance, the access        *)
(* combiner, registration and clearing of events, and teardown.  The       *)
(* hypervisor is seen through the driver_* calls: it accepts or rejects    *)
(* each request, and remembers the last request it accepted.               *)
(***************************************************************************)
EXTENDS Integers, Sequences, FiniteSets, TLC

\* ------------------------------------------------------------ bounds

\* caller-owned event objects of each type
NumMemEvents == 2
NumRegEvents == 2
NumSsEvents == 2
\* vmi->num_vcpus of the instance
NumVcpus == 2

\* vmi->page_shift, scaled down: a page holds 2^page_shift bytes
page_shift == 2
\* the frames of guest memory: mapping any other frame fails
NumFrames == 3
\* the longest buffer handed to xen_put_memory
MaxCount == 6
\* the calls of xen_destroy on one instance
MaxDestroy == 2
\* the characters strncmp compares in xen_get_domainid_from_name, scaled
\* down from 100
NameCmpLen == 2
\* the accessor calls made on one instance
MaxAccessorCalls == 3
\* the registrations on one page whose masks are folded
MaxMasks == 3

\* ------------------------------------------------------------ constants

\* the flag of vmi->init_mode that enables events
VMI_INIT_EVENTS == "VMI_INIT_EVENTS"

VMI_SUCCESS == "VMI_SUCCESS"
VMI_FAILURE == "VMI_FAILURE"

VMI_EVENT_MEMORY == "VMI_EVENT_MEMORY"
VMI_EVENT_REGISTER == "VMI_EVENT_REGISTER"
VMI_EVENT_SINGLESTEP == "VMI_EVENT_SINGLESTEP"

VMI_MEMEVENT_PAGE == "VMI_MEMEVENT_PAGE"
VMI_MEMEVENT_BYTE == "VMI_MEMEVENT_BYTE"

\* vmi_mem_access_t: a bit mask, with the two distinguished values
VMI_MEMACCESS_INVALID == 0
VMI_MEMACCESS_N == 1
VMI_MEMACCESS_R == 2
VMI_MEMACCESS_W == 4
VMI_MEMACCESS_X == 8
VMI_MEMACCESS_X_ON_WRITE == 16

\* vmi_reg_access_t
VMI_REGACCESS_N == "VMI_REGACCESS_N"
VMI_REGACCESS_R == "VMI_REGACCESS_R"
VMI_REGACCESS_W == "VMI_REGACCESS_W"
VMI_REGACCESS_RW == "VMI_REGACCESS_RW"

\* a null pointer in a table slot
NULL == 0

RECURSIVE BitOr(_, _)
\* the C operator | on non-negative integers
BitOr(a, b) ==
    IF a = 0 THEN b
    ELSE IF b = 0 THEN a
    ELSE (IF a % 2 = 1 \/ b % 2 = 1 THEN 1 ELSE 0) + 2 * BitOr(a \div 2, b \div 2)

VMI_MEMACCESS_RW == BitOr(VMI_MEMACCESS_R, VMI_MEMACCESS_W)
VMI_MEMACCESS_RX == BitOr(VMI_MEMACCESS_R, VMI_MEMACCESS_X)
VMI_MEMACCESS_WX == BitOr(VMI_MEMACCESS_W, VMI_MEMACCESS_X)
VMI_MEMACCESS_RWX == BitOr(VMI_MEMACCESS_RW, VMI_MEMACCESS_X)

\* every access a caller can name: none, r, w, x, their unions, x-on-write
ValidAccess ==
    { VMI_MEMACCESS_N, VMI_MEMACCESS_R, VMI_MEMACCESS_W, VMI_MEMACCESS_X,
      VMI_MEMACCESS_RW, VMI_MEMACCESS_RX, VMI_MEMACCESS_WX, VMI_MEMACCESS_RWX,
      VMI_MEMACCESS_X_ON_WRITE }

\* ------------------------------------------------------------ inputs

MemEventIds == 1 .. NumMemEvents
RegEventIds == { 100 + i : i \in 1 .. NumRegEvents }
SsEventIds == { 200 + i : i \in 1 .. NumSsEvents }
EventIds == MemEventIds \cup RegEventIds \cup SsEventIds

\* guest physical addresses events are put on: two bytes of page 0, one of page 1
PAddrs == { 16, 32, 4112 }
\* the in_access values callers register memory events with
AccessInputs == { VMI_MEMACCESS_R, VMI_MEMACCESS_W, VMI_MEMACCESS_X_ON_WRITE }
\* the registers callers watch
Regs == { "CR3", "RAX" }
RegAccessInputs == { VMI_REGACCESS_R, VMI_REGACCESS_W }
Vcpus == 0 .. NumVcpus - 1

\* addr_t page_key = physical_address >> 12
PageKey(physical_address) == physical_address \div 4096

Pages == { PageKey(a) : a \in PAddrs }

\* an event object no table points to: its fields are the caller's business
FreeObj == [ type |-> "free" ]

MemObj(granularity, physical_address, in_access) ==
    [ type |-> VMI_EVENT_MEMORY, granularity |-> granularity,
      physical_address |-> physical_address, in_access |-> in_access,
      callback |-> 1 ]

\* the keys callers put memory events on: page 0 and two of its bytes, page 1
MemKeys ==
    { << VMI_MEMEVENT_PAGE, 16 >>, << VMI_MEMEVENT_BYTE, 16 >>,
      << VMI_MEMEVENT_BYTE, 32 >>, << VMI_MEMEVENT_PAGE, 4112 >> }

\* the objects passed to vmi_register_event: of an event without callback
\* no other field is read
MemObjInputs ==
    { MemObj(k[1], k[2], acc) : k \in MemKeys, acc \in AccessInputs }
    \cup { [ MemObj(k[1], k[2], VMI_MEMACCESS_R) EXCEPT !.callback = NULL ] :
              k \in MemKeys }

\* the objects passed to vmi_clear_event that no table points to: clearing
\* does not read their in_access
MemObjClearInputs == { MemObj(k[1], k[2], VMI_MEMACCESS_R) : k \in MemKeys }

RegObj(reg, in_access) ==
    [ type |-> VMI_EVENT_REGISTER, reg |-> reg, in_access |-> in_access,
      callback |-> 1 ]

\* the objects passed to vmi_register_event
RegObjInputs ==
    { RegObj(r, acc) : r \in Regs, acc \in RegAccessInputs }
    \cup { [ RegObj(r, VMI_REGACCESS_R) EXCEPT !.callback = NULL ] : r \in Regs }

\* the objects passed to vmi_clear_event that no table points to
RegObjClearInputs == { RegObj(r, acc) : r \in Regs, acc \in RegAccessInputs }

\* ss_event.vcpus, a bit per vcpu, as the set of the vcpus whose bit is set
SsObj(vcpus) ==
    [ type |-> VMI_EVENT_SINGLESTEP, vcpus |-> vcpus, callback |-> 1 ]

\* the objects passed to vmi_register_event
SsObjInputs ==
    { SsObj(b) : b \in SUBSET Vcpus }
    \cup { [ SsObj(Vcpus) EXCEPT !.callback = NULL ] }

\* the objects passed to vmi_clear_event and vmi_stop_single_step_vcpu that
\* no table points to
SsObjClearInputs == { SsObj(b) : b \in SUBSET Vcpus }

\* CHECK_VCPU_SINGLESTEP(ss_event, vcpu)
CHECK_VCPU_SINGLESTEP(ss_event, vcpu) == vcpu \in ss_event.vcpus

\* UNSET_VCPU_SINGLESTEP(ss_event, vcpu)
UNSET_VCPU_SINGLESTEP(ss_event, vcpu) ==
    [ ss_event EXCEPT !.vcpus = @ \ { vcpu } ]

\* ------------------------------------------------------------ combiner

combine_mem_access_no_xow_check(base, add) ==
    IF add = base THEN base
    ELSE IF add = VMI_MEMACCESS_N THEN base
    ELSE IF base = VMI_MEMACCESS_N THEN add
    ELSE BitOr(base, add)

combine_mem_access(base, add) ==
    IF add = base THEN base
    ELSE IF add = VMI_MEMACCESS_N THEN base
    ELSE IF base = VMI_MEMACCESS_N THEN add
    ELSE IF add = VMI_MEMACCESS_X_ON_WRITE THEN VMI_MEMACCESS_INVALID
    ELSE IF base = VMI_MEMACCESS_X_ON_WRITE THEN VMI_MEMACCESS_INVALID
    ELSE BitOr(base, add)

\* ------------------------------------------------------------ state

VARIABLES
    event,          \* the fields of each event object a table points to
    mem_events,     \* vmi->mem_events: page key -> memevent_page_t
    reg_events,     \* vmi->reg_events: register -> event
    ss_events,      \* vmi->ss_events: vcpu -> event
    init_mode,      \* vmi->init_mode, the set of its flags
    shutting_down,  \* vmi->shutting_down
    hv_mem,         \* hypervisor: page key -> the last access it accepted
    hv_reg,         \* hypervisor: register -> the last access it accepted
    hv_ss,          \* hypervisor: the vcpus single-stepping
    pc,             \* "run", or the table events_destroy is walking, or "done"
    walk,           \* the keys of that table still to visit
    bwalk,          \* memevent_page_clean: the page and byte keys still to visit
    torn,           \* what vmi_destroy found registered, and whether the
                    \* backend has accepted every request since
    last,           \* the last API call: operation, event, return value; for
                    \* vmi_shutdown_single_step the vcpus ss_events held
    registered,     \* the keys of the memory events, and the register events
                    \* with their registers, registered with success
                    \* and not cleared with success since
    comb,           \* combine_mem_access on its own: operands and result,
                    \* or the masks folded, their order and the result
    put,            \* xen_put_memory: the call under way and the guest's frames
    xen,            \* the xen_instance_t, the build it runs in, the guest, and
                    \* the handles and memory the process holds
    xs,             \* xenstore: the directory of domains, and the last lookup
    ctx,            \* the guest's vcpu contexts, and the last register call
    os,             \* the instance's OS type, version and offsets, and the
                    \* last accessor call
    lex             \* the config lexer: the input left and the tokens returned

\* the state of the event registry
eventVars ==
    << event, mem_events, reg_events, ss_events, init_mode, shutting_down,
       hv_mem, hv_reg, hv_ss, pc, walk, bwalk, torn, last, registered, comb >>

\* the state of the Xen driver
xenVars == << put, xen, xs, ctx, os, lex >>

vars == << eventVars, xenVars >>

\* memevent_page_t, were access_flag left as g_malloc0 made it
Page_zeroed(access_flag, ev, has_byte_events, byte_events) ==
    [ access_flag |-> VMI_MEMACCESS_N, event |-> ev,
      has_byte_events |-> has_byte_events, byte_events |-> byte_events ]

\* memevent_page_t
Page(access_flag, ev, has_byte_events, byte_events) ==
    [ access_flag |-> access_flag, event |-> ev,
      has_byte_events |-> has_byte_events, byte_events |-> byte_events ]

EmptyTable == [ k \in {} |-> NULL ]

Remove(table, key) == [ k \in DOMAIN table \ { key } |-> table[k] ]

Insert(table, key, value) == (key :> value) @@ table

\* what a call works on: the instance and its tables, the objects, the
\* hypervisor, and the numbers of driver calls it has made and of those the
\* backend refused
Cur ==
    [ event |-> event, mem_events |-> mem_events, reg_events |-> reg_events,
      ss_events |-> ss_events, hv_mem |-> hv_mem, hv_reg |-> hv_reg,
      hv_ss |-> hv_ss, init_mode |-> init_mode,
      shutting_down |-> shutting_down, ncalls |-> 0, nrej |-> 0 ]

Ret(rc, s) == [ rc |-> rc, s |-> s ]

\* ------------------------------------------------------------ driver

\* the backend has refused a request
Refused(s) == [ s EXCEPT !.nrej = @ + 1 ]

\* the backend refuses an invalid mask, and may refuse any request
driver_set_mem_access(s, mem_event, page_access_flag, accept) ==
    LET s1 == [ s EXCEPT !.ncalls = @ + 1 ]
    IN  IF page_access_flag = VMI_MEMACCESS_INVALID \/ ~accept
        THEN Ret(VMI_FAILURE, Refused(s1))
        ELSE Ret(VMI_SUCCESS,
                 [ s1 EXCEPT !.hv_mem =
                       Insert(@, PageKey(mem_event.physical_address),
                              page_access_flag) ])

\* the backend programs the access of the register event it is handed
driver_set_reg_access(s, reg_event, accept) ==
    LET s1 == [ s EXCEPT !.ncalls = @ + 1 ]
    IN  IF ~accept
        THEN Ret(VMI_FAILURE, Refused(s1))
        ELSE Ret(VMI_SUCCESS,
                 [ s1 EXCEPT !.hv_reg =
                       Insert(@, reg_event.reg, reg_event.in_access) ])

\* the backend is handed the event, not the vcpu: it starts the vcpus selected
driver_start_single_step(s, ss_event, accept) ==
    LET s1 == [ s EXCEPT !.ncalls = @ + 1 ]
    IN  IF ~accept
        THEN Ret(VMI_FAILURE, Refused(s1))
        ELSE Ret(VMI_SUCCESS, [ s1 EXCEPT !.hv_ss = @ \cup ss_event.vcpus ])

driver_stop_single_step(s, vcpu, accept) ==
    LET s1 == [ s EXCEPT !.ncalls = @ + 1 ]
    IN  IF ~accept
        THEN Ret(VMI_FAILURE, Refused(s1))
        ELSE Ret(VMI_SUCCESS, [ s1 EXCEPT !.hv_ss = @ \ { vcpu } ])

driver_shutdown_single_step(s, accept) ==
    LET s1 == [ s EXCEPT !.ncalls = @ + 1 ]
    IN  IF ~accept
        THEN Ret(VMI_FAILURE, Refused(s1))
        ELSE Ret(VMI_SUCCESS, [ s1 EXCEPT !.hv_ss = {} ])

\* ------------------------------------------------------------ register events

\* register_reg_event, were it not to look the register up first
register_reg_event_no_lookup(s, e, accept) ==
    LET ev == s.event[e]
        d == driver_set_reg_access(s, ev, accept)
    IN  IF d.rc = VMI_SUCCESS
        THEN Ret(VMI_SUCCESS, [ d.s EXCEPT !.reg_events = Insert(@, ev.reg, e) ])
        ELSE Ret(VMI_FAILURE, d.s)

register_reg_event(s, e, accept) ==
    LET ev == s.event[e]
        d == driver_set_reg_access(s, ev, accept)
    IN  IF ev.reg \in DOMAIN s.reg_events
        THEN Ret(VMI_FAILURE, s)
        ELSE IF d.rc = VMI_SUCCESS
        THEN Ret(VMI_SUCCESS, [ d.s EXCEPT !.reg_events = Insert(@, ev.reg, e) ])
        ELSE Ret(VMI_FAILURE, d.s)

\* clear_reg_event, were it not to put event->reg_event.in_access back
clear_reg_event_no_restore(s, e, accept) ==
    LET ev == s.event[e]
        s1 == [ s EXCEPT !.event[e].in_access = VMI_REGACCESS_N ]
        d == driver_set_reg_access(s1, s1.event[e], accept)
    IN  IF ev.reg \in DOMAIN s.reg_events
        THEN IF ~s.shutting_down /\ d.rc = VMI_SUCCESS
             THEN Ret(d.rc, [ d.s EXCEPT !.reg_events = Remove(@, ev.reg) ])
             ELSE Ret(d.rc, d.s)
        ELSE Ret(VMI_FAILURE, s)

clear_reg_event(s, e, accept) ==
    LET ev == s.event[e]
        original_in_access == ev.in_access
        s1 == [ s EXCEPT !.event[e].in_access = VMI_REGACCESS_N ]
        d == driver_set_reg_access(s1, s1.event[e], accept)
        s2 == [ d.s EXCEPT !.event[e].in_access = original_in_access ]
    IN  IF ev.reg \in DOMAIN s.reg_events
        THEN IF ~s.shutting_down /\ d.rc = VMI_SUCCESS
             THEN Ret(d.rc, [ s2 EXCEPT !.reg_events = Remove(@, ev.reg) ])
             ELSE Ret(d.rc, s2)
        ELSE Ret(VMI_FAILURE, s)

\* ------------------------------------------------------------ single-step events

RECURSIVE register_singlestep_loop_no_lookup(_, _, _, _, _)
\* the loop, were it not to look the vcpu up in ss_events
register_singlestep_loop_no_lookup(s, rc, vcpu, e, accept) ==
    IF ~(vcpu < NumVcpus) THEN Ret(rc, s)
    ELSE IF CHECK_VCPU_SINGLESTEP(s.event[e], vcpu)
    THEN LET d == driver_start_single_step(s, s.event[e], accept[vcpu])
         IN  IF d.rc = VMI_SUCCESS
             THEN register_singlestep_loop_no_lookup(
                      [ d.s EXCEPT !.ss_events = Insert(Remove(@, vcpu), vcpu, e) ],
                      VMI_SUCCESS, vcpu + 1, e, accept)
             ELSE register_singlestep_loop_no_lookup(d.s, rc, vcpu + 1, e,
                                                     accept)
    ELSE register_singlestep_loop_no_lookup(s, rc, vcpu + 1, e, accept)

\* register_singlestep_event, were it to register over what is registered
register_singlestep_event_no_lookup(s, e, accept) ==
    register_singlestep_loop_no_lookup(s, VMI_FAILURE, 0, e, accept)

RECURSIVE register_singlestep_loop(_, _, _, _, _)
\* the loop of register_singlestep_event, from vcpu on, rc so far
register_singlestep_loop(s, rc, vcpu, e, accept) ==
    IF ~(vcpu < NumVcpus) THEN Ret(rc, s)
    ELSE IF CHECK_VCPU_SINGLESTEP(s.event[e], vcpu)
    THEN IF vcpu \in DOMAIN s.ss_events
         THEN register_singlestep_loop(s, rc, vcpu + 1, e, accept)
         ELSE LET d == driver_start_single_step(s, s.event[e], accept[vcpu])
              IN  IF d.rc = VMI_SUCCESS
                  THEN register_singlestep_loop(
                           [ d.s EXCEPT !.ss_events = Insert(@, vcpu, e) ],
                           VMI_SUCCESS, vcpu + 1, e, accept)
                  ELSE register_singlestep_loop(d.s, rc, vcpu + 1, e, accept)
    ELSE register_singlestep_loop(s, rc, vcpu + 1, e, accept)

register_singlestep_event(s, e, accept) ==
    register_singlestep_loop(s, VMI_FAILURE, 0, e, accept)

RECURSIVE clear_singlestep_loop(_, _, _, _, _)
\* the loop of clear_singlestep_event, from vcpu on, rc so far
clear_singlestep_loop(s, rc, vcpu, e, accept) ==
    IF ~(vcpu < NumVcpus) THEN Ret(rc, s)
    ELSE IF CHECK_VCPU_SINGLESTEP(s.event[e], vcpu)
    THEN LET d == driver_stop_single_step(s, vcpu, accept[vcpu])
         IN  IF ~s.shutting_down /\ d.rc = VMI_SUCCESS
             THEN clear_singlestep_loop(
                      [ d.s EXCEPT !.ss_events = Remove(@, vcpu) ],
                      d.rc, vcpu + 1, e, accept)
             ELSE clear_singlestep_loop(d.s, d.rc, vcpu + 1, e, accept)
    ELSE clear_singlestep_loop(s, rc, vcpu + 1, e, accept)

clear_singlestep_event(s, e, accept) ==
    clear_singlestep_loop(s, VMI_FAILURE, 0, e, accept)

\* ------------------------------------------------------------ memory events

\* register_mem_event, were it not to look at page->event before it sets it
register_mem_event_no_slot_check(s, e, accept) ==
    LET ev == s.event[e]
        granularity == ev.granularity
        page_key == PageKey(ev.physical_address)
    IN  IF page_key \in DOMAIN s.mem_events
        THEN
            LET page == s.mem_events[page_key]
                page_access_flag ==
                    combine_mem_access(page.access_flag, ev.in_access)
                d == driver_set_mem_access(s, ev, page_access_flag, accept)
            IN  IF granularity = VMI_MEMEVENT_PAGE
                THEN IF FALSE
                     THEN Ret(VMI_FAILURE, s)
                     ELSE IF d.rc = VMI_SUCCESS
                          THEN Ret(VMI_SUCCESS,
                                   [ d.s EXCEPT !.mem_events[page_key] =
                                       [ @ EXCEPT !.access_flag = page_access_flag,
                                                  !.event = e ] ])
                          ELSE Ret(VMI_FAILURE, d.s)
                ELSE IF granularity = VMI_MEMEVENT_BYTE
                THEN IF page.has_byte_events
                     THEN IF ev.physical_address \in DOMAIN page.byte_events
                          THEN Ret(VMI_FAILURE, s)
                          ELSE IF d.rc = VMI_SUCCESS
                               THEN Ret(VMI_SUCCESS,
                                        [ d.s EXCEPT !.mem_events[page_key] =
                                            [ @ EXCEPT
                                                !.access_flag = page_access_flag,
                                                !.byte_events =
                                                    Insert(@, ev.physical_address, e) ] ])
                               ELSE Ret(VMI_FAILURE, d.s)
                     ELSE IF d.rc = VMI_SUCCESS
                          THEN Ret(VMI_SUCCESS,
                                   [ d.s EXCEPT !.mem_events[page_key] =
                                       [ @ EXCEPT
                                           !.has_byte_events = TRUE,
                                           !.access_flag = page_access_flag,
                                           !.byte_events =
                                               Insert(EmptyTable, ev.physical_address, e) ] ])
                          ELSE Ret(VMI_FAILURE, d.s)
                ELSE Ret(VMI_FAILURE, s)
        ELSE
            LET d == driver_set_mem_access(s, ev, ev.in_access, accept)
            IN  IF d.rc = VMI_SUCCESS
                THEN Ret(VMI_SUCCESS,
                         [ d.s EXCEPT !.mem_events =
                             Insert(@, page_key,
                                 IF granularity = VMI_MEMEVENT_PAGE
                                 THEN Page(ev.in_access, e, FALSE, EmptyTable)
                                 ELSE Page(ev.in_access, NULL, TRUE,
                                           Insert(EmptyTable, ev.physical_address, e))) ])
                ELSE Ret(VMI_FAILURE, d.s)

\* register_mem_event, were it to ask the backend before it looks whether the
\* key is free
register_mem_event_asks_first(s, e, accept) ==
    LET ev == s.event[e]
        granularity == ev.granularity
        page_key == PageKey(ev.physical_address)
    IN  IF page_key \in DOMAIN s.mem_events
        THEN
            LET page == s.mem_events[page_key]
                page_access_flag ==
                    combine_mem_access(page.access_flag, ev.in_access)
                d == driver_set_mem_access(s, ev, page_access_flag, accept)
            IN  IF granularity = VMI_MEMEVENT_PAGE
                THEN IF page.event # NULL
                     THEN Ret(VMI_FAILURE, d.s)
                     ELSE IF d.rc = VMI_SUCCESS
                          THEN Ret(VMI_SUCCESS,
                                   [ d.s EXCEPT !.mem_events[page_key] =
                                       [ @ EXCEPT !.access_flag = page_access_flag,
                                                  !.event = e ] ])
                          ELSE Ret(VMI_FAILURE, d.s)
                ELSE IF granularity = VMI_MEMEVENT_BYTE
                THEN IF page.has_byte_events
                     THEN IF ev.physical_address \in DOMAIN page.byte_events
                          THEN Ret(VMI_FAILURE, d.s)
                          ELSE IF d.rc = VMI_SUCCESS
                               THEN Ret(VMI_SUCCESS,
                                        [ d.s EXCEPT !.mem_events[page_key] =
                                            [ @ EXCEPT
                                                !.access_flag = page_access_flag,
                                                !.byte_events =
                                                    Insert(@, ev.physical_address, e) ] ])
                               ELSE Ret(VMI_FAILURE, d.s)
                     ELSE IF d.rc = VMI_SUCCESS
                          THEN Ret(VMI_SUCCESS,
                                   [ d.s EXCEPT !.mem_events[page_key] =
                                       [ @ EXCEPT
                                           !.has_byte_events = TRUE,
                                           !.access_flag = page_access_flag,
                                           !.byte_events =
                                               Insert(EmptyTable, ev.physical_address, e) ] ])
                          ELSE Ret(VMI_FAILURE, d.s)
                ELSE Ret(VMI_FAILURE, s)
        ELSE
            LET d == driver_set_mem_access(s, ev, ev.in_access, accept)
            IN  IF d.rc = VMI_SUCCESS
                THEN Ret(VMI_SUCCESS,
                         [ d.s EXCEPT !.mem_events =
                             Insert(@, page_key,
                                 IF granularity = VMI_MEMEVENT_PAGE
                                 THEN Page(ev.in_access, e, FALSE, EmptyTable)
                                 ELSE Page(ev.in_access, NULL, TRUE,
                                           Insert(EmptyTable, ev.physical_address, e))) ])
                ELSE Ret(VMI_FAILURE, d.s)

register_mem_event(s, e, accept) ==
    LET ev == s.event[e]
        granularity == ev.granularity
        page_key == PageKey(ev.physical_address)
    IN  IF page_key \in DOMAIN s.mem_events
        THEN
            LET page == s.mem_events[page_key]
                page_access_flag ==
                    combine_mem_access(page.access_flag, ev.in_access)
                d == driver_set_mem_access(s, ev, page_access_flag, accept)
            IN  IF granularity = VMI_MEMEVENT_PAGE
                THEN IF page.event # NULL
                     THEN Ret(VMI_FAILURE, s)
                     ELSE IF d.rc = VMI_SUCCESS
                          THEN Ret(VMI_SUCCESS,
                                   [ d.s EXCEPT !.mem_events[page_key] =
                                       [ @ EXCEPT !.access_flag = page_access_flag,
                                                  !.event = e ] ])
                          ELSE Ret(VMI_FAILURE, d.s)
                ELSE IF granularity = VMI_MEMEVENT_BYTE
                THEN IF page.has_byte_events
                     THEN IF ev.physical_address \in DOMAIN page.byte_events
                          THEN Ret(VMI_FAILURE, s)
                          ELSE IF d.rc = VMI_SUCCESS
                               THEN Ret(VMI_SUCCESS,
                                        [ d.s EXCEPT !.mem_events[page_key] =
                                            [ @ EXCEPT
                                                !.access_flag = page_access_flag,
                                                !.byte_events =
                                                    Insert(@, ev.physical_address, e) ] ])
                               ELSE Ret(VMI_FAILURE, d.s)
                     ELSE IF d.rc = VMI_SUCCESS
                          THEN Ret(VMI_SUCCESS,
                                   [ d.s EXCEPT !.mem_events[page_key] =
                                       [ @ EXCEPT
                                           !.has_byte_events = TRUE,
                                           !.access_flag = page_access_flag,
                                           !.byte_events =
                                               Insert(EmptyTable, ev.physical_address, e) ] ])
                          ELSE Ret(VMI_FAILURE, d.s)
                ELSE Ret(VMI_FAILURE, s)
        ELSE
            LET d == driver_set_mem_access(s, ev, ev.in_access, accept)
            IN  IF d.rc = VMI_SUCCESS
                THEN Ret(VMI_SUCCESS,
                         [ d.s EXCEPT !.mem_events =
                             Insert(@, page_key,
                                 IF granularity = VMI_MEMEVENT_PAGE
                                 THEN Page(ev.in_access, e, FALSE, EmptyTable)
                                 ELSE Page(ev.in_access, NULL, TRUE,
                                           Insert(EmptyTable, ev.physical_address, e))) ])
                ELSE Ret(VMI_FAILURE, d.s)

\* the orders a hash table with these keys may be iterated in
Orders(keys) ==
    { o \in [ 1 .. Cardinality(keys) -> keys ] :
        \A i, j \in DOMAIN o : i # j => o[i] # o[j] }

RECURSIVE FoldAccess(_, _, _, _)
\* for_each_event(...) page_access_flag = combine_mem_access(page_access_flag, loop->in_access)
FoldAccess(s, page_access_flag, byte_events, order) ==
    IF order = << >> THEN page_access_flag
    ELSE IF Head(order) \in DOMAIN byte_events
    THEN FoldAccess(s,
             combine_mem_access(page_access_flag,
                                s.event[byte_events[Head(order)]].in_access),
             byte_events, Tail(order))
    ELSE FoldAccess(s, page_access_flag, byte_events, Tail(order))

\* clear_mem_event, granularity page, were it to leave page->access_flag as it
\* was when byte events remain
clear_mem_event_page_stale_flag(s, e, accept, order) ==
    LET page_key == PageKey(s.event[e].physical_address)
        page == s.mem_events[page_key]
    IN  IF page.event = NULL
        THEN Ret(VMI_FAILURE, s)
        ELSE
            LET remove_event == page.event
                s1 == [ s EXCEPT !.event[remove_event].in_access = VMI_MEMACCESS_N ]
                page_access_flag ==
                    IF page.has_byte_events
                    THEN FoldAccess(s1, VMI_MEMACCESS_N, page.byte_events, order)
                    ELSE VMI_MEMACCESS_N
                d == driver_set_mem_access(s1, s1.event[e], page_access_flag, accept)
            IN  IF d.rc = VMI_SUCCESS
                THEN Ret(VMI_SUCCESS,
                         [ d.s EXCEPT !.mem_events =
                             IF ~s.shutting_down /\ ~page.has_byte_events
                             THEN Remove(@, page_key)
                             ELSE [ @ EXCEPT ![page_key] =
                                      [ @ EXCEPT !.event = NULL ] ] ])
                ELSE Ret(d.rc, d.s)

\* clear_mem_event, granularity page
clear_mem_event_page(s, e, accept, order) ==
    LET page_key == PageKey(s.event[e].physical_address)
        page == s.mem_events[page_key]
    IN  IF page.event = NULL
        THEN Ret(VMI_FAILURE, s)
        ELSE
            LET remove_event == page.event
                s1 == [ s EXCEPT !.event[remove_event].in_access = VMI_MEMACCESS_N ]
                page_access_flag ==
                    IF page.has_byte_events
                    THEN FoldAccess(s1, VMI_MEMACCESS_N, page.byte_events, order)
                    ELSE VMI_MEMACCESS_N
                d == driver_set_mem_access(s1, s1.event[e], page_access_flag, accept)
            IN  IF d.rc = VMI_SUCCESS
                THEN Ret(VMI_SUCCESS,
                         [ d.s EXCEPT !.mem_events =
                             IF ~s.shutting_down /\ ~page.has_byte_events
                             THEN Remove(@, page_key)
                             ELSE [ @ EXCEPT ![page_key] =
                                      [ @ EXCEPT !.event = NULL,
                                                 !.access_flag = page_access_flag ] ] ])
                ELSE Ret(d.rc, d.s)

\* clear_mem_event, granularity byte, were it to leave the emptied descriptor in
\* mem_events
clear_mem_event_byte_keeps_page(s, e, accept, order) ==
    LET ev == s.event[e]
        page_key == PageKey(ev.physical_address)
        page == s.mem_events[page_key]
    IN  IF ~page.has_byte_events
        THEN Ret(VMI_FAILURE, s)
        ELSE IF ev.physical_address \notin DOMAIN page.byte_events
        THEN Ret(VMI_FAILURE, s)
        ELSE
            LET remove_event == page.byte_events[ev.physical_address]
                \* g_hash_table_steal
                stolen == Remove(page.byte_events,
                                 s.event[remove_event].physical_address)
                flag0 == IF page.event # NULL
                         THEN combine_mem_access(VMI_MEMACCESS_N,
                                                 s.event[page.event].in_access)
                         ELSE VMI_MEMACCESS_N
                page_access_flag ==
                    IF Cardinality(DOMAIN stolen) > 0
                    THEN FoldAccess(s, flag0, stolen, order)
                    ELSE flag0
                d == driver_set_mem_access(s, s.event[remove_event],
                                           page_access_flag, accept)
                emptied == Cardinality(DOMAIN stolen) = 0
            IN  IF d.rc = VMI_SUCCESS
                THEN Ret(VMI_SUCCESS,
                         [ d.s EXCEPT !.mem_events =
                             IF FALSE
                             THEN Remove(@, page_key)
                             ELSE [ @ EXCEPT ![page_key] =
                                      [ @ EXCEPT !.access_flag = page_access_flag,
                                                 !.has_byte_events = ~emptied,
                                                 !.byte_events = stolen ] ] ])
                ELSE \* place back the event as removal failed
                     Ret(d.rc, d.s)

\* clear_mem_event, granularity byte
clear_mem_event_byte(s, e, accept, order) ==
    LET ev == s.event[e]
        page_key == PageKey(ev.physical_address)
        page == s.mem_events[page_key]
    IN  IF ~page.has_byte_events
        THEN Ret(VMI_FAILURE, s)
        ELSE IF ev.physical_address \notin DOMAIN page.byte_events
        THEN Ret(VMI_FAILURE, s)
        ELSE
            LET remove_event == page.byte_events[ev.physical_address]
                \* g_hash_table_steal
                stolen == Remove(page.byte_events,
                                 s.event[remove_event].physical_address)
                flag0 == IF page.event # NULL
                         THEN combine_mem_access(VMI_MEMACCESS_N,
                                                 s.event[page.event].in_access)
                         ELSE VMI_MEMACCESS_N
                page_access_flag ==
                    IF Cardinality(DOMAIN stolen) > 0
                    THEN FoldAccess(s, flag0, stolen, order)
                    ELSE flag0
                d == driver_set_mem_access(s, s.event[remove_event],
                                           page_access_flag, accept)
                emptied == Cardinality(DOMAIN stolen) = 0
            IN  IF d.rc = VMI_SUCCESS
                THEN Ret(VMI_SUCCESS,
                         [ d.s EXCEPT !.mem_events =
                             IF ~s.shutting_down /\ page.event = NULL /\ emptied
                             THEN Remove(@, page_key)
                             ELSE [ @ EXCEPT ![page_key] =
                                      [ @ EXCEPT !.access_flag = page_access_flag,
                                                 !.has_byte_events = ~emptied,
                                                 !.byte_events = stolen ] ] ])
                ELSE \* place back the event as removal failed
                     Ret(d.rc, d.s)

clear_mem_event(s, e, accept, order) ==
    LET granularity == s.event[e].granularity
        page_key == PageKey(s.event[e].physical_address)
    IN  IF page_key \in DOMAIN s.mem_events
        THEN IF granularity = VMI_MEMEVENT_PAGE
             THEN clear_mem_event_page(s, e, accept, order)
             ELSE IF granularity = VMI_MEMEVENT_BYTE
             THEN clear_mem_event_byte(s, e, accept, order)
             ELSE Ret(VMI_FAILURE, s)
        ELSE Ret(VMI_FAILURE, s)

\* ------------------------------------------------------------ API

\* vmi_register_event, were it not to test init_mode
vmi_register_event_any_mode(s, e, accept) ==
    IF e = NULL THEN Ret(VMI_FAILURE, s)
    ELSE IF s.event[e].callback = NULL THEN Ret(VMI_FAILURE, s)
    ELSE IF s.event[e].type = VMI_EVENT_REGISTER
    THEN register_reg_event(s, e, accept)
    ELSE IF s.event[e].type = VMI_EVENT_MEMORY
    THEN register_mem_event(s, e, accept)
    ELSE IF s.event[e].type = VMI_EVENT_SINGLESTEP
    THEN register_singlestep_event(s, e, accept)
    ELSE Ret(VMI_FAILURE, s)

\* vmi_register_event; e is NULL when no event is given
vmi_register_event(s, e, accept) ==
    IF VMI_INIT_EVENTS \notin s.init_mode THEN Ret(VMI_FAILURE, s)
    ELSE IF e = NULL THEN Ret(VMI_FAILURE, s)
    ELSE IF s.event[e].callback = NULL THEN Ret(VMI_FAILURE, s)
    ELSE IF s.event[e].type = VMI_EVENT_REGISTER
    THEN register_reg_event(s, e, accept)
    ELSE IF s.event[e].type = VMI_EVENT_MEMORY
    THEN register_mem_event(s, e, accept)
    ELSE IF s.event[e].type = VMI_EVENT_SINGLESTEP
    THEN register_singlestep_event(s, e, accept)
    ELSE Ret(VMI_FAILURE, s)

vmi_clear_event(s, e, accept, order) ==
    IF VMI_INIT_EVENTS \notin s.init_mode THEN Ret(VMI_FAILURE, s)
    ELSE IF s.event[e].type = VMI_EVENT_SINGLESTEP
    THEN clear_singlestep_event(s, e, accept)
    ELSE IF s.event[e].type = VMI_EVENT_REGISTER
    THEN clear_reg_event(s, e, accept)
    ELSE IF s.event[e].type = VMI_EVENT_MEMORY
    THEN clear_mem_event(s, e, accept, order)
    ELSE Ret(VMI_FAILURE, s)

vmi_stop_single_step_vcpu(s, e, vcpu, accept) ==
    IF VMI_INIT_EVENTS \notin s.init_mode THEN Ret(VMI_FAILURE, s)
    ELSE driver_stop_single_step(
             [ s EXCEPT !.event[e] = UNSET_VCPU_SINGLESTEP(@, vcpu),
                        !.ss_events = Remove(@, vcpu) ],
             vcpu, accept)

\* vmi_shutdown_single_step, were it to keep the table it has
vmi_shutdown_single_step_keeps_table(s, accept) ==
    IF VMI_INIT_EVENTS \notin s.init_mode THEN Ret(VMI_FAILURE, s)
    ELSE LET d == driver_shutdown_single_step(s, accept)
         IN  IF d.rc = VMI_SUCCESS
             THEN Ret(VMI_SUCCESS, d.s)
             ELSE Ret(VMI_FAILURE, d.s)

vmi_shutdown_single_step(s, accept) ==
    IF VMI_INIT_EVENTS \notin s.init_mode THEN Ret(VMI_FAILURE, s)
    ELSE LET d == driver_shutdown_single_step(s, accept)
         IN  IF d.rc = VMI_SUCCESS
             THEN Ret(VMI_SUCCESS, [ d.s EXCEPT !.ss_events = EmptyTable ])
             ELSE Ret(VMI_FAILURE, d.s)

\* driver_events_listen: the backend waits for events, or refuses to
driver_events_listen(s, timeout, accept) ==
    LET s1 == [ s EXCEPT !.ncalls = @ + 1 ]
    IN  IF ~accept THEN Ret(VMI_FAILURE, Refused(s1))
        ELSE Ret(VMI_SUCCESS, s1)

vmi_events_listen(s, timeout, accept) ==
    IF VMI_INIT_EVENTS \notin s.init_mode THEN Ret(VMI_FAILURE, s)
    ELSE driver_events_listen(s, timeout, accept)

\* whether a table of s points to object e
Referenced(s, e) ==
    \/ \E p \in DOMAIN s.mem_events :
          \/ s.mem_events[p].event = e
          \/ \E a \in DOMAIN s.mem_events[p].byte_events :
                s.mem_events[p].byte_events[a] = e
    \/ \E r \in DOMAIN s.reg_events : s.reg_events[r] = e
    \/ \E v \in DOMAIN s.ss_events : s.ss_events[v] = e

\* the objects no table points to are the caller's again
Release(s) ==
    [ s EXCEPT !.event =
        [ e \in EventIds |-> IF Referenced(s, e) THEN s.event[e] ELSE FreeObj ] ]

\* what a memory event is registered under: its page, or its byte
MemKeyOf(obj) ==
    IF obj.granularity = VMI_MEMEVENT_PAGE
    THEN << obj.granularity, PageKey(obj.physical_address) >>
    ELSE << obj.granularity, obj.physical_address >>

\* the call returns: r is its result, op and e what was called
Return(r, op, e) ==
    LET s == Release(r.s)
    IN  /\ event' = s.event
        /\ mem_events' = s.mem_events
        /\ reg_events' = s.reg_events
        /\ ss_events' = s.ss_events
        /\ hv_mem' = s.hv_mem
        /\ hv_reg' = s.hv_reg
        /\ hv_ss' = s.hv_ss
        /\ last' = [ op |-> op, ev |-> e, rc |-> r.rc, ncalls |-> r.s.ncalls,
                     nrej |-> r.s.nrej, obj |-> r.s.event[e], vcpu |-> NULL,
                     stepping |-> {} ]
        /\ registered' =
              IF r.rc = VMI_SUCCESS /\ r.s.event[e].type = VMI_EVENT_MEMORY
              THEN IF op = "vmi_register_event"
                   THEN registered \cup { MemKeyOf(r.s.event[e]) }
                   ELSE registered \ { MemKeyOf(r.s.event[e]) }
              ELSE IF r.rc = VMI_SUCCESS /\ r.s.event[e].type = VMI_EVENT_REGISTER
              THEN IF op = "vmi_register_event"
                   THEN registered \cup { << r.s.event[e].reg, e >> }
                   ELSE { x \in registered : x[1] # r.s.event[e].reg }
              ELSE registered
        /\ UNCHANGED << init_mode, shutting_down, pc, walk, bwalk, torn, comb,
                    xenVars >>

\* the object a caller passes: one a table points to, as it is, or a fresh one
\* (fresh objects are interchangeable: the first free one stands for all)
Passed(e, inputs) == IF event[e] = FreeObj THEN inputs ELSE { event[e] }

Callable(ids) ==
    { e \in ids : event[e] = FreeObj => \A f \in ids : event[f] = FreeObj => e <= f }

\* the byte events on the page of a memory event object
ByteKeys(obj) ==
    IF PageKey(obj.physical_address) \in DOMAIN mem_events
    THEN DOMAIN mem_events[PageKey(obj.physical_address)].byte_events
    ELSE {}

RegisterMemEvent(e) ==
    /\ pc = "run"
    /\ \E obj \in Passed(e, MemObjInputs), accept \in BOOLEAN :
          Return(vmi_register_event([ Cur EXCEPT !.event[e] = obj ], e, accept),
                 "vmi_register_event", e)

ClearMemEvent(e) ==
    /\ pc = "run"
    /\ \E obj \in Passed(e, MemObjClearInputs), accept \in BOOLEAN :
          \E order \in Orders(ByteKeys(obj)) :
             Return(vmi_clear_event([ Cur EXCEPT !.event[e] = obj ], e, accept,
                                    order),
                    "vmi_clear_event", e)

RegisterRegEvent(e) ==
    /\ pc = "run"
    /\ \E obj \in Passed(e, RegObjInputs), accept \in BOOLEAN :
          Return(vmi_register_event([ Cur EXCEPT !.event[e] = obj ], e, accept),
                 "vmi_register_event", e)

ClearRegEvent(e) ==
    /\ pc = "run"
    /\ \E obj \in Passed(e, RegObjClearInputs), accept \in BOOLEAN :
          Return(vmi_clear_event([ Cur EXCEPT !.event[e] = obj ], e, accept, << >>),
                 "vmi_clear_event", e)

RegisterSsEvent(e) ==
    /\ pc = "run"
    /\ \E obj \in Passed(e, SsObjInputs), accept \in [ Vcpus -> BOOLEAN ] :
          Return(vmi_register_event([ Cur EXCEPT !.event[e] = obj ], e, accept),
                 "vmi_register_event", e)

ClearSsEvent(e) ==
    /\ pc = "run"
    /\ \E obj \in Passed(e, SsObjClearInputs), accept \in [ Vcpus -> BOOLEAN ] :
          Return(vmi_clear_event([ Cur EXCEPT !.event[e] = obj ], e, accept, << >>),
                 "vmi_clear_event", e)

StopSingleStepVcpu(e, vcpu) ==
    /\ pc = "run"
    /\ \E obj \in Passed(e, SsObjClearInputs), accept \in BOOLEAN :
          LET r == vmi_stop_single_step_vcpu([ Cur EXCEPT !.event[e] = obj ],
                                             e, vcpu, accept)
              s == Release(r.s)
          IN  /\ event' = s.event
              /\ ss_events' = s.ss_events
              /\ hv_ss' = s.hv_ss
              /\ last' = [ op |-> "vmi_stop_single_step_vcpu", ev |-> e,
                           rc |-> r.rc, ncalls |-> r.s.ncalls,
                           nrej |-> r.s.nrej,
                           obj |-> r.s.event[e], vcpu |-> vcpu,
                           stepping |-> {} ]
    /\ UNCHANGED << mem_events, reg_events, hv_mem, hv_reg, init_mode,
                    shutting_down, pc, walk, bwalk, torn, registered, comb,
                    xenVars >>

ShutdownSingleStep ==
    /\ pc = "run"
    /\ \E accept \in BOOLEAN :
          LET r == vmi_shutdown_single_step(Cur, accept)
              s == Release(r.s)
          IN  /\ event' = s.event
              /\ ss_events' = s.ss_events
              /\ hv_ss' = s.hv_ss
              /\ last' = [ op |-> "vmi_shutdown_single_step", ev |-> NULL,
                           rc |-> r.rc, ncalls |-> r.s.ncalls,
                           nrej |-> r.s.nrej,
                           obj |-> FreeObj, vcpu |-> NULL,
                           stepping |-> DOMAIN ss_events ]
    /\ UNCHANGED << mem_events, reg_events, hv_mem, hv_reg, init_mode,
                    shutting_down, pc, walk, bwalk, torn, registered, comb,
                    xenVars >>

\* ------------------------------------------------------------ teardown

NoCall ==
    [ op |-> "none", ev |-> NULL, rc |-> VMI_SUCCESS, ncalls |-> 0, nrej |-> 0,
      obj |-> FreeObj, vcpu |-> NULL, stepping |-> {} ]

NoWalk == [ page |-> NULL, keys |-> {} ]

\* a step of the walk leaves the instance as s; r is the result of its clear
Walked(r, s) ==
    LET s1 == Release(s)
    IN  /\ event' = s1.event
        /\ mem_events' = s1.mem_events
        /\ reg_events' = s1.reg_events
        /\ ss_events' = s1.ss_events
        /\ hv_mem' = s1.hv_mem
        /\ hv_reg' = s1.hv_reg
        /\ hv_ss' = s1.hv_ss
        /\ torn' = [ torn EXCEPT !.accepted =
                       @ /\ r.s.nrej = 0 ]
        /\ UNCHANGED << init_mode, shutting_down, last, registered, comb,
                    xenVars >>

\* vmi_destroy sets shutting_down and calls events_destroy, which returns at
\* once on an instance without events and else starts on mem_events
BeginDestroy ==
    /\ pc = "run"
    /\ shutting_down' = TRUE
    /\ IF VMI_INIT_EVENTS \in init_mode
       THEN pc' = "mem" /\ walk' = DOMAIN mem_events
       ELSE pc' = "done" /\ walk' = {}
    /\ torn' = [ mem |-> DOMAIN mem_events, reg |-> DOMAIN reg_events,
                 ss |-> DOMAIN ss_events, accepted |-> TRUE ]
    /\ last' = [ NoCall EXCEPT !.op = "vmi_destroy" ]
    /\ UNCHANGED << event, mem_events, reg_events, ss_events, init_mode,
                    hv_mem, hv_reg, hv_ss, bwalk, registered, comb,
                    xenVars >>

event_entry_free(s, e, accept, order) == vmi_clear_event(s, e, accept, order)

\* memevent_page_clean up to the walk of the byte events
memevent_page_clean(s, page_key, accept, order) ==
    IF s.mem_events[page_key].event # NULL
    THEN vmi_clear_event(s, s.mem_events[page_key].event, accept, order)
    ELSE Ret(VMI_SUCCESS, s)

\* g_hash_table_foreach_remove(vmi->mem_events, memevent_page_clean, vmi), one page
MemPageClean(page_key) ==
    /\ pc = "mem"
    /\ page_key \in walk
    /\ \E accept \in BOOLEAN :
          \E order \in Orders(DOMAIN mem_events[page_key].byte_events) :
             LET r == memevent_page_clean(Cur, page_key, accept, order)
                 page == r.s.mem_events[page_key]
             IN  IF page.has_byte_events
                 THEN /\ Walked(r, r.s)
                      /\ pc' = "byte"
                      /\ bwalk' = [ page |-> page_key,
                                    keys |-> DOMAIN page.byte_events ]
                      /\ walk' = walk
                 ELSE /\ Walked(r, [ r.s EXCEPT !.mem_events = Remove(@, page_key) ])
                      /\ pc' = "mem"
                      /\ bwalk' = NoWalk
                      /\ walk' = walk \ { page_key }

\* g_hash_table_foreach_steal(page->byte_events, event_entry_free, vmi), one
\* entry.  The callback takes entries out of the table being walked, and may
\* destroy it: GLib leaves the rest of such a walk undefined, so the walk
\* either goes on (go_on) or ends here.  Then the table is destroyed and the
\* page freed.
ByteEventFree(key) ==
    /\ pc = "byte"
    /\ key \in bwalk.keys
    /\ \E accept \in BOOLEAN, go_on \in BOOLEAN :
          \E order \in Orders(DOMAIN mem_events[bwalk.page].byte_events) :
             LET page_key == bwalk.page
                 r == event_entry_free(Cur, mem_events[page_key].byte_events[key],
                                       accept, order)
                 s1 == [ r.s EXCEPT !.mem_events[page_key].byte_events =
                                        Remove(@, key) ]
                 page == s1.mem_events[page_key]
                 rest == (bwalk.keys \ { key }) \cap DOMAIN page.byte_events
             IN  IF go_on /\ page.has_byte_events /\ rest # {}
                 THEN /\ Walked(r, s1)
                      /\ pc' = "byte"
                      /\ bwalk' = [ bwalk EXCEPT !.keys = rest ]
                      /\ walk' = walk
                 ELSE /\ Walked(r, [ s1 EXCEPT !.mem_events = Remove(@, page_key) ])
                      /\ pc' = "mem"
                      /\ bwalk' = NoWalk
                      /\ walk' = walk \ { page_key }

\* g_hash_table_foreach_steal(vmi->reg_events, event_entry_free, vmi), one entry
RegEntryFree(reg) ==
    /\ pc = "reg"
    /\ reg \in walk
    /\ \E accept \in BOOLEAN :
          LET r == event_entry_free(Cur, reg_events[reg], accept, << >>)
          IN  Walked(r, [ r.s EXCEPT !.reg_events = Remove(@, reg) ])
    /\ walk' = walk \ { reg }
    /\ UNCHANGED << pc, bwalk >>

\* g_hash_table_foreach_remove(vmi->ss_events, event_entry_free, vmi), one entry
SsEntryFree(vcpu) ==
    /\ pc = "ss"
    /\ vcpu \in walk
    /\ \E accept \in [ Vcpus -> BOOLEAN ] :
          LET r == event_entry_free(Cur, ss_events[vcpu], accept, << >>)
          IN  Walked(r, [ r.s EXCEPT !.ss_events = Remove(@, vcpu) ])
    /\ walk' = walk \ { vcpu }
    /\ UNCHANGED << pc, bwalk >>

\* a table has been walked: g_hash_table_destroy, and on to the next one
TableWalkDone ==
    /\ pc \in { "mem", "reg", "ss" }
    /\ walk = {}
    /\ pc' = CASE pc = "mem" -> "reg" [] pc = "reg" -> "ss" [] OTHER -> "done"
    /\ walk' = CASE pc = "mem" -> DOMAIN reg_events
                 [] pc = "reg" -> DOMAIN ss_events
                 [] OTHER -> {}
    /\ UNCHANGED << event, mem_events, reg_events, ss_events, init_mode,
                    shutting_down, hv_mem, hv_reg, hv_ss, bwalk, torn, last,
                    registered, comb,
                    xenVars >>

\* ------------------------------------------------------------ specifications

\* no call of the Xen driver is under way
NoPut == [ pc |-> "idle" ]

NoXen == [ pc |-> "idle" ]
NoXs == [ pc |-> "idle" ]
NoCtx == [ pc |-> "idle" ]
NoOs == [ pc |-> "idle" ]
NoLex == [ pc |-> "idle" ]

XenIdle ==
    /\ put = NoPut /\ xen = NoXen /\ xs = NoXs /\ ctx = NoCtx
    /\ os = NoOs /\ lex = NoLex

NoComb ==
    [ base |-> VMI_MEMACCESS_N, add |-> VMI_MEMACCESS_N, called |-> FALSE,
      result |-> VMI_MEMACCESS_INVALID ]

\* events_init on an instance initialised with VMI_INIT_EVENTS: empty tables;
\* nothing programmed in the hypervisor
Init ==
    /\ event = [ e \in EventIds |-> FreeObj ]
    /\ mem_events = EmptyTable
    /\ reg_events = EmptyTable
    /\ ss_events = EmptyTable
    /\ init_mode = { VMI_INIT_EVENTS }
    /\ shutting_down = FALSE
    /\ hv_mem = EmptyTable
    /\ hv_reg = EmptyTable
    /\ hv_ss = {}
    /\ pc = "run"
    /\ walk = {}
    /\ bwalk = NoWalk
    /\ torn = [ mem |-> {}, reg |-> {}, ss |-> {}, accepted |-> TRUE ]
    /\ last = NoCall
    /\ registered = {}
    /\ comb = NoComb
    /\ XenIdle

Teardown == BeginDestroy \/ TableWalkDone

\* memory events only
NextMem ==
    \/ \E e \in Callable(MemEventIds) : RegisterMemEvent(e)
    \/ \E e \in Callable(MemEventIds) : ClearMemEvent(e)
    \/ \E page_key \in Pages : MemPageClean(page_key)
    \/ \E key \in PAddrs : ByteEventFree(key)
    \/ Teardown

SpecMem == Init /\ [][NextMem]_vars

\* register events only
NextReg ==
    \/ \E e \in Callable(RegEventIds) : RegisterRegEvent(e)
    \/ \E e \in Callable(RegEventIds) : ClearRegEvent(e)
    \/ \E reg \in Regs : RegEntryFree(reg)
    \/ Teardown

SpecReg == Init /\ [][NextReg]_vars

\* single-step events only
NextSs ==
    \/ \E e \in Callable(SsEventIds) : RegisterSsEvent(e)
    \/ \E e \in Callable(SsEventIds) : ClearSsEvent(e)
    \/ \E e \in Callable(SsEventIds), vcpu \in Vcpus : StopSingleStepVcpu(e, vcpu)
    \/ ShutdownSingleStep
    \/ \E vcpu \in Vcpus : SsEntryFree(vcpu)
    \/ Teardown

SpecSs == Init /\ [][NextSs]_vars

\* ------------------------------------------------------------ any instance

\* vmi_register_event(vmi, NULL)
RegisterNoEvent ==
    /\ pc = "run"
    /\ \E accept \in BOOLEAN :
          LET r == vmi_register_event(Cur, NULL, accept)
              s == Release(r.s)
          IN  /\ event' = s.event
              /\ mem_events' = s.mem_events
              /\ reg_events' = s.reg_events
              /\ ss_events' = s.ss_events
              /\ hv_mem' = s.hv_mem
              /\ hv_reg' = s.hv_reg
              /\ hv_ss' = s.hv_ss
              /\ last' = [ NoCall EXCEPT !.op = "vmi_register_event",
                                         !.rc = r.rc, !.ncalls = r.s.ncalls,
                                         !.nrej = r.s.nrej ]
    /\ UNCHANGED << init_mode, shutting_down, pc, walk, bwalk, torn,
                    registered, comb, xenVars >>

\* vmi_events_listen with either timeout; what the callbacks the backend
\* runs do is the caller's business
EventsListen ==
    /\ pc = "run"
    /\ \E timeout \in { 0, 500 }, accept \in BOOLEAN :
          LET r == vmi_events_listen(Cur, timeout, accept)
          IN  last' = [ NoCall EXCEPT !.op = "vmi_events_listen",
                                     !.rc = r.rc, !.ncalls = r.s.ncalls,
                                     !.nrej = r.s.nrej, !.vcpu = timeout ]
    /\ UNCHANGED << event, mem_events, reg_events, ss_events, hv_mem, hv_reg,
                    hv_ss, init_mode, shutting_down, pc, walk, bwalk, torn,
                    registered, comb, xenVars >>

\* the public event functions on register and single-step events (a
\* single-step event is cleared vcpu by vcpu, or by the shutdown)
NextApi ==
    \/ \E e \in Callable(RegEventIds) : RegisterRegEvent(e)
    \/ \E e \in Callable(RegEventIds) : ClearRegEvent(e)
    \/ \E e \in Callable(SsEventIds) : RegisterSsEvent(e)
    \/ \E e \in Callable(SsEventIds), vcpu \in Vcpus : StopSingleStepVcpu(e, vcpu)
    \/ ShutdownSingleStep
    \/ RegisterNoEvent
    \/ EventsListen

\* an instance initialised with VMI_INIT_EVENTS or without: without,
\* events_init has made no table
InitApi ==
    /\ event = [ e \in EventIds |-> FreeObj ]
    /\ mem_events = EmptyTable
    /\ reg_events = EmptyTable
    /\ ss_events = EmptyTable
    /\ init_mode \in { {}, { VMI_INIT_EVENTS } }
    /\ shutting_down = FALSE
    /\ hv_mem = EmptyTable
    /\ hv_reg = EmptyTable
    /\ hv_ss = {}
    /\ pc = "run"
    /\ walk = {}
    /\ bwalk = NoWalk
    /\ torn = [ mem |-> {}, reg |-> {}, ss |-> {}, accepted |-> TRUE ]
    /\ last = NoCall
    /\ registered = {}
    /\ comb = NoComb
    /\ XenIdle

SpecApi == InitApi /\ [][NextApi]_vars

\* combine_mem_access on its own, on every pair of accesses a caller can name
Combine ==
    /\ ~comb.called
    /\ comb' = [ comb EXCEPT !.called = TRUE,
                             !.result = combine_mem_access(comb.base, comb.add) ]
    /\ UNCHANGED << event, mem_events, reg_events, ss_events, init_mode,
                    shutting_down, hv_mem, hv_reg, hv_ss, pc, walk, bwalk, torn,
                    last, registered, xenVars >>

NextCombine == Combine

InitCombine ==
    /\ event = [ e \in EventIds |-> FreeObj ]
    /\ mem_events = EmptyTable
    /\ reg_events = EmptyTable
    /\ ss_events = EmptyTable
    /\ init_mode = { VMI_INIT_EVENTS }
    /\ shutting_down = FALSE
    /\ hv_mem = EmptyTable
    /\ hv_reg = EmptyTable
    /\ hv_ss = {}
    /\ pc = "run"
    /\ walk = {}
    /\ bwalk = NoWalk
    /\ torn = [ mem |-> {}, reg |-> {}, ss |-> {}, accepted |-> TRUE ]
    /\ last = NoCall
    /\ registered = {}
    /\ \E base \in ValidAccess, add \in ValidAccess :
          comb = [ NoComb EXCEPT !.base = base, !.add = add ]
    /\ XenIdle

SpecCombine == InitCombine /\ [][NextCombine]_vars

\* ------------------------------------------------------------ the fold

\* the masks of the registrations of a page, as events in a table keyed by
\* their position, folded from none in the order the table is iterated in
FoldOf(masks, order) ==
    FoldAccess([ event |-> [ i \in DOMAIN masks |-> [ in_access |-> masks[i] ] ] ],
               VMI_MEMACCESS_N, [ i \in DOMAIN masks |-> i ], order)

\* the loop of clear_mem_event over the registrations left on a page
Fold ==
    /\ ~comb.called
    /\ comb' = [ comb EXCEPT !.called = TRUE,
                             !.result = FoldOf(comb.masks, comb.order) ]
    /\ UNCHANGED << event, mem_events, reg_events, ss_events, init_mode,
                    shutting_down, hv_mem, hv_reg, hv_ss, pc, walk, bwalk, torn,
                    last, registered, xenVars >>

NextFold == Fold

\* up to MaxMasks registrations on a page, of any masks a caller can name,
\* iterated in any order
MaskInputs ==
    UNION { [ 1 .. n -> ValidAccess ] : n \in 0 .. MaxMasks }

InitFold ==
    /\ event = [ e \in EventIds |-> FreeObj ]
    /\ mem_events = EmptyTable
    /\ reg_events = EmptyTable
    /\ ss_events = EmptyTable
    /\ init_mode = { VMI_INIT_EVENTS }
    /\ shutting_down = FALSE
    /\ hv_mem = EmptyTable
    /\ hv_reg = EmptyTable
    /\ hv_ss = {}
    /\ pc = "run"
    /\ walk = {}
    /\ bwalk = NoWalk
    /\ torn = [ mem |-> {}, reg |-> {}, ss |-> {}, accepted |-> TRUE ]
    /\ last = NoCall
    /\ registered = {}
    /\ \E masks \in MaskInputs : \E order \in Orders(DOMAIN masks) :
          comb = [ masks |-> masks, order |-> order, called |-> FALSE,
                   result |-> VMI_MEMACCESS_INVALID ]
    /\ XenIdle

SpecFold == InitFold /\ [][NextFold]_vars

\* ------------------------------------------------------------ xen_put_memory

page_size == 2 ^ page_shift

RECURSIVE BitAnd(_, _)
\* a & b
BitAnd(a, b) ==
    IF a = 0 \/ b = 0 THEN 0
    ELSE (a % 2) * (b % 2) + 2 * BitAnd(a \div 2, b \div 2)

\* guest physical addresses, and the buffers written: byte i holds i
PutAddrs == 0 .. NumFrames * page_size - 1
PutBuf(count) == [ i \in 1 .. count |-> i ]

\* guest memory before the write: every byte 0
BlankFrames == [ pfn \in 0 .. NumFrames - 1 |-> [ o \in 0 .. page_size - 1 |-> 0 ] ]

\* xen_put_memory(vmi, paddr, count, buf) has been called
PutCalled(paddr, count, maps) ==
    [ pc |-> "loop", paddr |-> paddr, count |-> count, buf |-> PutBuf(count),
      buf_offset |-> 0, phys_address |-> 0, pfn |-> 0, offset |-> 0,
      memory |-> {}, frames |-> BlankFrames, rc |-> VMI_SUCCESS,
      hv_maps |-> maps,
      \* what the call was made with and what it has done so far
      count0 |-> count, maps0 |-> maps, nmap |-> 0, nrel |-> 0, ntry |-> 0,
      slices |-> << >> ]

\* xen_get_memory_pfn: xc_map_foreign_range maps the frame (ok) or fails;
\* the result is the set of frames the call holds mapped, {} for NULL
xen_get_memory_pfn(p, pfn, ok) ==
    IF ok /\ pfn \in DOMAIN p.frames
    THEN [ p EXCEPT !.memory = @ \cup { pfn }, !.hv_maps = @ + 1,
                    !.nmap = @ + 1, !.ntry = @ + 1 ]
    ELSE [ p EXCEPT !.ntry = @ + 1 ]

\* xen_release_memory(memory, length): munmap is called with whatever
\* pointer is passed, here the set of frames it maps, {} for NULL; the
\* backend drops the mappings it holds among them
xen_release_memory(p, memory) ==
    [ p EXCEPT !.memory = @ \ memory,
               !.hv_maps = @ - Cardinality(memory \cap p.memory),
               !.nrel = @ + 1 ]

\* the length of a slice, were it not cut at the end of the page
PutWriteLen_uncut(offset, count) == count

\* the length of a slice, were the cut to stop one byte before the end of
\* the page
PutWriteLen_short(offset, count) ==
    IF offset + count > page_size THEN page_size - 1 - offset ELSE count

\* how much of count fits in the page from offset on
PutWriteLen(offset, count) ==
    IF offset + count > page_size THEN page_size - offset ELSE count

\* memcpy(memory + offset, buf + buf_offset, write_len) into the mapped frame
PutMemcpy(frame, offset, buf, buf_offset, write_len) ==
    [ o \in DOMAIN frame |->
        IF offset <= o /\ o < offset + write_len
        THEN buf[buf_offset + (o - offset) + 1]
        ELSE frame[o] ]

\* the mapping step, were a failed map to skip its slice and go on
PutMap_goes_on ==
    /\ put.pc = "loop"
    /\ put.count > 0
    /\ \E ok \in BOOLEAN :
          LET phys_address == put.paddr + put.buf_offset
              pfn == phys_address \div (2 ^ page_shift)
              offset == BitAnd(page_size - 1, phys_address)
              p == xen_get_memory_pfn(
                       [ put EXCEPT !.phys_address = phys_address,
                                    !.pfn = pfn, !.offset = offset ], pfn, ok)
              write_len == PutWriteLen(offset, put.count)
          IN  put' = IF pfn \in p.memory
                     THEN [ p EXCEPT !.pc = "copy" ]
                     ELSE [ p EXCEPT !.count = @ - write_len,
                                     !.buf_offset = @ + write_len,
                                     !.rc = VMI_FAILURE ]
    /\ UNCHANGED << eventVars, xen, xs, ctx, os, lex >>

\* while (count > 0): the frame of the next byte is mapped, or the call fails
PutMap ==
    /\ put.pc = "loop"
    /\ put.count > 0
    /\ \E ok \in BOOLEAN :
          LET phys_address == put.paddr + put.buf_offset
              pfn == phys_address \div (2 ^ page_shift)
              offset == BitAnd(page_size - 1, phys_address)
              p == xen_get_memory_pfn(
                       [ put EXCEPT !.phys_address = phys_address,
                                    !.pfn = pfn, !.offset = offset ], pfn, ok)
          IN  put' = IF pfn \in p.memory
                     THEN [ p EXCEPT !.pc = "copy" ]
                     ELSE [ p EXCEPT !.pc = "done", !.rc = VMI_FAILURE ]
    /\ UNCHANGED << eventVars, xen, xs, ctx, os, lex >>

\* the slice is copied into the mapped frame
PutCopy ==
    /\ put.pc = "copy"
    /\ LET write_len == PutWriteLen(put.offset, put.count)
       IN  put' = [ put EXCEPT
                      !.frames[put.pfn] =
                          PutMemcpy(@, put.offset, put.buf, put.buf_offset,
                                    write_len),
                      !.count = @ - write_len,
                      !.buf_offset = @ + write_len,
                      !.slices = Append(@, << put.phys_address, write_len >>),
                      !.pc = "release" ]
    /\ UNCHANGED << eventVars, xen, xs, ctx, os, lex >>

\* the end of the loop body, were it not to release the frame
PutRelease_leak ==
    /\ put.pc = "release"
    /\ put' = [ put EXCEPT !.pc = "loop" ]
    /\ UNCHANGED << eventVars, xen, xs, ctx, os, lex >>

\* the frame is released, and the loop goes round
PutRelease ==
    /\ put.pc = "release"
    /\ put' = [ xen_release_memory(put, { put.pfn }) EXCEPT !.pc = "loop" ]
    /\ UNCHANGED << eventVars, xen, xs, ctx, os, lex >>

\* nothing is left to write
PutReturn ==
    /\ put.pc = "loop"
    /\ put.count = 0
    /\ put' = [ put EXCEPT !.pc = "done", !.rc = VMI_SUCCESS ]
    /\ UNCHANGED << eventVars, xen, xs, ctx, os, lex >>

xen_put_memory == PutMap \/ PutCopy \/ PutRelease \/ PutReturn

NextPut == xen_put_memory

\* the registry idle
EventsIdle ==
    /\ event = [ e \in EventIds |-> FreeObj ]
    /\ mem_events = EmptyTable
    /\ reg_events = EmptyTable
    /\ ss_events = EmptyTable
    /\ init_mode = { VMI_INIT_EVENTS }
    /\ shutting_down = FALSE
    /\ hv_mem = EmptyTable
    /\ hv_reg = EmptyTable
    /\ hv_ss = {}
    /\ pc = "run"
    /\ walk = {}
    /\ bwalk = NoWalk
    /\ torn = [ mem |-> {}, reg |-> {}, ss |-> {}, accepted |-> TRUE ]
    /\ last = NoCall
    /\ registered = {}
    /\ comb = NoComb

\* a call of xen_put_memory on any address, with any count, while the
\* backend holds none or one frame mapped for others
InitPut ==
    /\ EventsIdle
    /\ \E paddr \in PutAddrs, count \in 0 .. MaxCount, maps \in 0 .. 1 :
          put = PutCalled(paddr, count, maps)
    /\ xen = NoXen /\ xs = NoXs /\ ctx = NoCtx
    /\ os = NoOs /\ lex = NoLex

SpecPut == InitPut /\ [][NextPut]_vars

\* the call runs on: the thread is scheduled, and the calls of libxc return
SpecPutFair == SpecPut /\ WF_vars(NextPut)

\* ------------------------------------------------------------ xen_init, xen_destroy

\* no handle to the libxc interface
XENCTRL_HANDLE_INVALID == -1
\* no domain
VMI_INVALID_DOMID == -1

\* the machine-specific register EFER of the guests: clear; LMA (bit 8) alone;
\* LME (bit 10) alone; LME and LMA; SCE, LME, LMA and NXE
EferInputs == { 0, 256, 1024, 1280, 3329 }

\* what XEN_DOMCTL_get_address_size reports, in bits
AddressSizeInputs == { 0, 16, 32, 39, 64, 72, 128 }

\* vmi_get_bit(reg, bit)
vmi_get_bit(reg, bit) == (reg \div (2 ^ bit)) % 2

\* the handles the backend gives out, and the block strndup returns
XcHandle == 1
XsHandle == 2
NameBlock == 3

\* an instance before xen_init, in a build with or without events and
\* xenstore, asked for events or not
XenNew(events_built, xenstore_built, events_asked, guest) ==
    [ pc |-> "new",
      ENABLE_XEN_EVENTS |-> events_built, HAVE_LIBXENSTORE |-> xenstore_built,
      init_events |-> events_asked, guest |-> guest,
      \* xen_instance_t
      xchandle |-> XENCTRL_HANDLE_INVALID, xshandle |-> NULL,
      name |-> NULL,
      domainid |-> 1, hvm |-> FALSE, addr_width |-> 0,
      \* vmi->num_vcpus
      num_vcpus |-> 0,
      \* what the process holds
      xc_open |-> {}, xs_open |-> {},
      heap |-> {}, events |-> FALSE,
      \* the releases made of something released before
      stale |-> 0,
      \* the calls made and what they returned
      rc |-> VMI_FAILURE, fetched |-> FALSE, discovered |-> VMI_FAILURE,
      asked |-> FALSE, width |-> 0, ndestroy |-> 0,
      \* the steps of xen_init that succeeded, in the order made
      steps |-> << >> ]

\* xen_set_domainname: strndup(name, 500)
xen_set_domainname(x) ==
    [ x EXCEPT !.name = NameBlock, !.heap = @ \cup { NameBlock } ]

\* xen_events_init: only for a hardware-virtualized guest, and the backend
\* may refuse
xen_events_init(x, ok) ==
    IF x.hvm /\ ok THEN Ret(VMI_SUCCESS, [ x EXCEPT !.events = TRUE ])
    ELSE Ret(VMI_FAILURE, x)

\* xen_events_destroy
xen_events_destroy(x) ==
    IF x.events THEN [ x EXCEPT !.events = FALSE ]
    ELSE [ x EXCEPT !.stale = @ + 1 ]

\* xc_interface_close
xc_interface_close(x, h) ==
    IF h \in x.xc_open THEN [ x EXCEPT !.xc_open = @ \ { h } ]
    ELSE [ x EXCEPT !.stale = @ + 1 ]

\* CLOSE_XS_DAEMON
CLOSE_XS_DAEMON(x, h) ==
    IF h \in x.xs_open THEN [ x EXCEPT !.xs_open = @ \ { h } ]
    ELSE [ x EXCEPT !.stale = @ + 1 ]

\* free
XenFree(x, b) ==
    IF b = NULL THEN x
    ELSE IF b \in x.heap THEN [ x EXCEPT !.heap = @ \ { b } ]
    ELSE [ x EXCEPT !.stale = @ + 1 ]

\* the discovery, were a width other than 4 and 8 let through
xen_discover_guest_addr_width_unchecked(x, ok) ==
    LET x0 == [ x EXCEPT !.addr_width = 0 ]
    IN  IF ~ok THEN Ret(VMI_FAILURE, x0)
        ELSE IF x0.hvm
        THEN Ret(VMI_SUCCESS,
                 [ x0 EXCEPT !.fetched = TRUE,
                             !.addr_width =
                                 IF vmi_get_bit(x.guest.msr_efer, 8) = 0
                                 THEN 4 ELSE 8 ])
        ELSE Ret(VMI_SUCCESS,
                 [ x0 EXCEPT !.fetched = TRUE,
                             !.addr_width = x.guest.address_size \div 8 ])

\* xen_discover_guest_addr_width; ok: the backend hands out the context
\* (hardware-virtualized) or the address size (paravirtualized)
xen_discover_guest_addr_width(x, ok) ==
    LET x0 == [ x EXCEPT !.addr_width = 0 ]
    IN  IF x0.hvm
        THEN IF ~ok THEN Ret(VMI_FAILURE, x0)
             ELSE Ret(VMI_SUCCESS,
                      [ x0 EXCEPT !.fetched = TRUE,
                                  !.addr_width =
                                      IF vmi_get_bit(x.guest.msr_efer, 8) = 0
                                      THEN 4 ELSE 8 ])
        ELSE IF ~ok THEN Ret(VMI_FAILURE, x0)
             ELSE LET x1 == [ x0 EXCEPT !.fetched = TRUE,
                                        !.addr_width =
                                            x.guest.address_size \div 8 ]
                  IN  IF 8 # x1.addr_width /\ 4 # x1.addr_width
                      THEN Ret(VMI_FAILURE, x1)
                      ELSE Ret(VMI_SUCCESS, x1)

\* xen_init; ok: which of the backend's calls succeed
xen_init(x, ok) ==
    IF ~ok.open THEN Ret(VMI_FAILURE, x)
    ELSE
    LET x1 == [ x EXCEPT !.xchandle = XcHandle,
                         !.xc_open = @ \cup { XcHandle },
                         !.steps = Append(@, "xc_interface_open") ]
    IN  IF ~ok.info THEN Ret(VMI_FAILURE, x1)
        ELSE
        LET x1i == [ x1 EXCEPT !.steps = Append(@, "xc_domain_getinfo") ]
            x2 == IF ~x1i.HAVE_LIBXENSTORE THEN x1i
                  ELSE IF ok.xs
                  THEN [ x1i EXCEPT !.xshandle = XsHandle,
                                    !.xs_open = @ \cup { XsHandle },
                                    !.steps = Append(@, "OPEN_XS_DAEMON") ]
                  ELSE [ x1i EXCEPT !.xshandle = NULL ]
        IN  IF x2.HAVE_LIBXENSTORE /\ x2.xshandle = NULL
            THEN Ret(VMI_FAILURE, x2)
            ELSE
            LET x3 == [ x2 EXCEPT !.num_vcpus = x2.guest.max_vcpu_id + 1,
                                  !.hvm = x2.guest.hvm ]
                ev == IF x3.ENABLE_XEN_EVENTS /\ x3.init_events
                      THEN LET i == xen_events_init(x3, ok.events)
                           IN  IF i.rc = VMI_FAILURE THEN i
                               ELSE Ret(i.rc, [ i.s EXCEPT !.steps =
                                            Append(@, "xen_events_init") ])
                      ELSE Ret(VMI_SUCCESS, x3)
            IN  IF ev.rc = VMI_FAILURE THEN Ret(VMI_FAILURE, ev.s)
                ELSE LET d == xen_discover_guest_addr_width(ev.s, ok.width)
                     IN  Ret(d.rc,
                             [ d.s EXCEPT
                                 !.discovered = d.rc,
                                 !.steps =
                                     IF d.rc = VMI_SUCCESS
                                     THEN Append(@, "xen_discover_guest_addr_width")
                                     ELSE @ ])

\* xen_destroy
xen_destroy(x) ==
    LET x1 == IF x.ENABLE_XEN_EVENTS /\ x.hvm /\ x.init_events
              THEN xen_events_destroy(x) ELSE x
        x2 == [ x1 EXCEPT !.domainid = VMI_INVALID_DOMID ]
        x3 == IF x2.xchandle # XENCTRL_HANDLE_INVALID
              THEN xc_interface_close(x2, x2.xchandle) ELSE x2
        x4 == IF x3.HAVE_LIBXENSTORE /\ x3.xshandle # NULL
              THEN CLOSE_XS_DAEMON(x3, x3.xshandle) ELSE x3
    IN  XenFree(x4, x4.name)

\* xen_get_address_width: the width goes out through a uint8_t
xen_get_address_width(x) ==
    [ x EXCEPT !.width = x.addr_width % 256, !.asked = TRUE ]

OkInputs ==
    [ open : BOOLEAN, info : BOOLEAN, xs : BOOLEAN, events : BOOLEAN,
      width : BOOLEAN ]

XenInit ==
    /\ xen.pc = "new"
    /\ \E ok \in OkInputs :
          LET r == xen_init(xen, ok)
          IN  xen' = [ r.s EXCEPT
                         !.rc = r.rc,
                         !.pc = IF r.rc = VMI_SUCCESS THEN "inited"
                                ELSE "failed" ]
    /\ UNCHANGED << eventVars, put, xs, ctx, os, lex >>

\* teardown of an instance xen_init has initialised, any number of times;
\* releasing what was released before is undefined: the call returns or
\* the process dies
XenDestroy ==
    /\ xen.pc \in { "inited", "destroyed" }
    /\ xen.ndestroy < MaxDestroy
    /\ \E dies \in BOOLEAN :
          LET x == xen_destroy(xen)
          IN  xen' = [ x EXCEPT
                         !.ndestroy = @ + 1,
                         !.pc = IF dies /\ x.stale > xen.stale THEN "aborted"
                                ELSE "destroyed" ]
    /\ UNCHANGED << eventVars, put, xs, ctx, os, lex >>

XenGetAddressWidth ==
    /\ xen.pc \in { "inited", "failed" }
    /\ ~xen.asked
    /\ xen' = xen_get_address_width(xen)
    /\ UNCHANGED << eventVars, put, xs, ctx, os, lex >>

NextXen == XenInit \/ XenDestroy \/ XenGetAddressWidth

\* info.max_vcpu_id of the domains: one vcpu, or NumVcpus
MaxVcpuIdInputs == { 0, NumVcpus - 1 }

GuestInputs ==
    [ hvm : BOOLEAN, msr_efer : EferInputs, address_size : AddressSizeInputs,
      max_vcpu_id : MaxVcpuIdInputs ]

InitXen ==
    /\ EventsIdle
    /\ put = NoPut /\ xs = NoXs /\ ctx = NoCtx
    /\ os = NoOs /\ lex = NoLex
    /\ \E events_built, xenstore_built, events_asked, named \in BOOLEAN :
          \E guest \in GuestInputs :
             LET x == XenNew(events_built, xenstore_built, events_asked,
                             guest)
             IN  xen = IF named THEN xen_set_domainname(x) ELSE x

SpecXen == InitXen /\ [][NextXen]_vars

\* ------------------------------------------------------------ xenstore

\* a char *: null, or a string
NullStr == [ null |-> TRUE, s |-> << >> ]
Str(s) == [ null |-> FALSE, s |-> s ]

\* the strings of up to n characters
Strings(n) == UNION { [ 1 .. k -> { "a", "b" } ] : k \in 0 .. n }

\* domain names: one character longer than strncmp looks at
NameInputs == Strings(NameCmpLen + 1)

\* the first n characters of s
Take(s, n) == SubSeq(s, 1, IF Len(s) < n THEN Len(s) ELSE n)

\* strncmp(a, b, n) == 0
strncmp_eq(a, b, n) == Take(a, n) = Take(b, n)

RECURSIVE atoi(_)
\* atoi of a string of decimal digits
atoi(str) ==
    IF str = << >> THEN 0
    ELSE atoi(SubSeq(str, 1, Len(str) - 1)) * 10 + str[Len(str)]

RECURSIVE FormatLu(_)
\* sprintf("%lu", n): the decimal digits of n
FormatLu(n) ==
    IF n < 10 THEN << n >> ELSE Append(FormatLu(n \div 10), n % 10)

\* the entries /local/domain can hold: domains 7 and 12
DomainEntries == { << 7 >>, << 1, 2 >> }

\* the directories of at most two domains, in any order
Directories ==
    { << >> } \cup { << a >> : a \in DomainEntries }
    \cup { d \in DomainEntries \X DomainEntries : d[1] # d[2] }

\* the ids callers ask the name of: the two domains, one that does not
\* exist, and none
DomainIdInputs == { atoi(e) : e \in DomainEntries } \cup { 3, VMI_INVALID_DOMID }

NoLookup == [ op |-> "none" ]

\* xs_directory(xsh, xth, "/local/domain", &size)
xs_directory(x) == x.dir

\* xs_read(xsh, xth, "/local/domain/<entry>/name", NULL)
xs_read(x, entry) ==
    IF entry \in DOMAIN x.store THEN x.store[entry] ELSE NullStr

RECURSIVE DomainLoop(_, _, _, _)
\* for (i = 0; i < size; ++i): the id of the first entry whose name matches
DomainLoop(x, domains, name, i) ==
    IF i > Len(domains) THEN VMI_INVALID_DOMID
    ELSE LET idStr == domains[i]
             nameCandidate == xs_read(x, idStr)
         IN  IF /\ ~nameCandidate.null
                /\ strncmp_eq(name.s, nameCandidate.s, NameCmpLen)
             THEN atoi(idStr)
             ELSE DomainLoop(x, domains, name, i + 1)

\* the lookup, were the names compared whole
xen_get_domainid_from_name_strcmp(x, name, up) ==
    IF ~x.HAVE_LIBXENSTORE \/ name.null \/ ~up THEN VMI_INVALID_DOMID
    ELSE IF \E i \in 1 .. Len(x.dir) : xs_read(x, x.dir[i]) = name
         THEN atoi(x.dir[CHOOSE i \in 1 .. Len(x.dir) :
                             /\ xs_read(x, x.dir[i]) = name
                             /\ \A j \in 1 .. i - 1 :
                                   xs_read(x, x.dir[j]) # name])
         ELSE VMI_INVALID_DOMID

\* xen_get_domainid_from_name; up: OPEN_XS_DAEMON gives a handle
xen_get_domainid_from_name(x, name, up) ==
    IF ~x.HAVE_LIBXENSTORE THEN VMI_INVALID_DOMID
    ELSE IF name.null THEN VMI_INVALID_DOMID
    ELSE IF ~up THEN VMI_INVALID_DOMID
    ELSE DomainLoop(x, xs_directory(x), name, 1)

\* xen_get_name_from_domainid; name: what *name holds before the call
xen_get_name_from_domainid(x, domid, name, up) ==
    IF ~x.HAVE_LIBXENSTORE THEN [ rc |-> VMI_FAILURE, name |-> name ]
    ELSE IF domid = VMI_INVALID_DOMID
    THEN [ rc |-> VMI_FAILURE, name |-> name ]
    ELSE IF ~up THEN [ rc |-> VMI_FAILURE, name |-> name ]
    ELSE LET nameCandidate == xs_read(x, FormatLu(domid))
         IN  IF ~nameCandidate.null
             THEN [ rc |-> VMI_SUCCESS, name |-> nameCandidate ]
             ELSE [ rc |-> VMI_FAILURE, name |-> name ]

\* xen_get_domainname; name: what the caller's char * holds before the call
\* (callers pass the address of a variable); xshandle: the instance has a
\* xenstore handle.  The test after xs_read is of the address passed.
xen_get_domainname(x, domid, name, xshandle) ==
    IF ~x.HAVE_LIBXENSTORE THEN [ rc |-> VMI_FAILURE, name |-> name ]
    ELSE IF ~xshandle THEN [ rc |-> VMI_FAILURE, name |-> name ]
    ELSE [ rc |-> VMI_SUCCESS, name |-> xs_read(x, FormatLu(domid)) ]

\* vmi_get_name, on an instance of the Xen driver
vmi_get_name(x, domid, xshandle) ==
    LET r == xen_get_domainname(x, domid, NullStr, xshandle)
    IN  IF r.rc = VMI_FAILURE THEN NullStr ELSE r.name

\* one lookup of any name, or of none
XsGetDomainidFromName ==
    /\ xs.pc = "run"
    /\ xs.last.op = "none"
    /\ \E name \in { Str(s) : s \in NameInputs } \cup { NullStr },
          up \in BOOLEAN :
          xs' = [ xs EXCEPT !.last =
                    [ op |-> "id", name |-> name, up |-> up,
                      id |-> xen_get_domainid_from_name(xs, name, up) ] ]
    /\ UNCHANGED << eventVars, put, xen, ctx, os, lex >>

\* the name of any id is asked for, or that of the id the lookup before
\* has returned
XsGetNameFromDomainid ==
    /\ xs.pc = "run"
    /\ xs.last.op # "name"
    /\ \E domid \in IF xs.last.op = "id" THEN { xs.last.id }
                    ELSE DomainIdInputs,
          up \in BOOLEAN :
          LET r == xen_get_name_from_domainid(xs, domid, NullStr, up)
          IN  xs' = [ xs EXCEPT !.last =
                        [ op |-> "name", domid |-> domid, up |-> up,
                          rc |-> r.rc, name |-> r.name, after |-> xs.last ] ]
    /\ UNCHANGED << eventVars, put, xen, ctx, os, lex >>

\* the name of the instance's domain is asked for, through the driver and
\* through vmi_get_name
XsGetDomainname ==
    /\ xs.pc = "run"
    /\ xs.last.op = "none"
    /\ \E domid \in DomainIdInputs, xshandle \in BOOLEAN :
          LET r == xen_get_domainname(xs, domid, NullStr, xshandle)
          IN  xs' = [ xs EXCEPT !.last =
                        [ op |-> "domainname", domid |-> domid,
                          xshandle |-> xshandle, rc |-> r.rc,
                          name |-> r.name,
                          vmi_get_name |-> vmi_get_name(xs, domid, xshandle) ] ]
    /\ UNCHANGED << eventVars, put, xen, ctx, os, lex >>

NextXs == XsGetDomainidFromName \/ XsGetNameFromDomainid \/ XsGetDomainname

\* any directory: each domain in it with a name or with none
InitXs ==
    /\ EventsIdle
    /\ put = NoPut /\ xen = NoXen /\ ctx = NoCtx
    /\ os = NoOs /\ lex = NoLex
    /\ \E built \in BOOLEAN, dir \in Directories :
          \E store \in [ { dir[i] : i \in 1 .. Len(dir) } ->
                           { Str(s) : s \in NameInputs } \cup { NullStr } ] :
             xs = [ pc |-> "run", HAVE_LIBXENSTORE |-> built, dir |-> dir,
                    store |-> store, last |-> NoLookup ]

SpecXs == InitXs /\ [][NextXs]_vars

\* ------------------------------------------------------------ vcpu registers

\* the page shift of libxc
XC_PAGE_SHIFT == 12

\* xen_get_vcpureg_hvm: switch (reg), the field each case reads
HvmGetField ==
    [ RAX |-> "rax", RBX |-> "rbx", RCX |-> "rcx", RDX |-> "rdx",
      RBP |-> "rbp", RSI |-> "rsi", RDI |-> "rdi", RSP |-> "rsp",
      R8 |-> "r8", R9 |-> "r9", R10 |-> "r10", R11 |-> "r11", R12 |-> "r12",
      R13 |-> "r13", R14 |-> "r14", R15 |-> "r15", RIP |-> "rip",
      RFLAGS |-> "rflags", CR0 |-> "cr0", CR2 |-> "cr2", CR3 |-> "cr3",
      CR4 |-> "cr4", DR0 |-> "dr0", DR1 |-> "dr1", DR2 |-> "dr2",
      DR3 |-> "dr3", DR6 |-> "dr6", DR7 |-> "dr7", CS_SEL |-> "cs_sel",
      DS_SEL |-> "ds_sel", ES_SEL |-> "es_sel", FS_SEL |-> "fs_sel",
      GS_SEL |-> "gs_sel", SS_SEL |-> "ss_sel", TR_SEL |-> "tr_sel",
      LDTR_SEL |-> "ldtr_sel", CS_LIMIT |-> "cs_limit",
      DS_LIMIT |-> "ds_limit", ES_LIMIT |-> "es_limit",
      FS_LIMIT |-> "fs_limit", GS_LIMIT |-> "gs_limit",
      SS_LIMIT |-> "ss_limit", TR_LIMIT |-> "tr_limit",
      LDTR_LIMIT |-> "ldtr_limit", IDTR_LIMIT |-> "idtr_limit",
      GDTR_LIMIT |-> "gdtr_limit", CS_BASE |-> "cs_base",
      DS_BASE |-> "ds_base", ES_BASE |-> "es_base", FS_BASE |-> "fs_base",
      GS_BASE |-> "gs_base", SS_BASE |-> "ss_base", TR_BASE |-> "tr_base",
      LDTR_BASE |-> "ldtr_base", IDTR_BASE |-> "idtr_base",
      GDTR_BASE |-> "gdtr_base", CS_ARBYTES |-> "cs_arbytes",
      DS_ARBYTES |-> "ds_arbytes", ES_ARBYTES |-> "es_arbytes",
      FS_ARBYTES |-> "fs_arbytes", GS_ARBYTES |-> "gs_arbytes",
      SS_ARBYTES |-> "ss_arbytes", TR_ARBYTES |-> "tr_arbytes",
      LDTR_ARBYTES |-> "ldtr_arbytes", SYSENTER_CS |-> "sysenter_cs",
      SYSENTER_ESP |-> "sysenter_esp", SYSENTER_EIP |-> "sysenter_eip",
      SHADOW_GS |-> "shadow_gs", MSR_FLAGS |-> "msr_flags",
      MSR_LSTAR |-> "msr_lstar", MSR_CSTAR |-> "msr_cstar",
      MSR_SYSCALL_MASK |-> "msr_syscall_mask", MSR_EFER |-> "msr_efer",
      MSR_TSC_AUX |-> "msr_tsc_aux", TSC |-> "tsc" ]

\* xen_set_vcpureg_hvm: switch (reg), the field each case assigns
HvmSetField ==
    [ RAX |-> "rax", RBX |-> "rbx", RCX |-> "rcx", RDX |-> "rdx",
      RBP |-> "rbp", RSI |-> "rsi", RDI |-> "rdi", RSP |-> "rsp",
      R8 |-> "r8", R9 |-> "r9", R10 |-> "r10", R11 |-> "r11", R12 |-> "r12",
      R13 |-> "r13", R14 |-> "r14", R15 |-> "r15", RIP |-> "rip",
      RFLAGS |-> "rflags", CR0 |-> "cr0", CR2 |-> "cr2", CR3 |-> "cr3",
      CR4 |-> "cr4", DR0 |-> "dr0", DR1 |-> "dr1", DR2 |-> "dr2",
      DR3 |-> "dr3", DR6 |-> "dr6", DR7 |-> "dr7", CS_SEL |-> "cs_sel",
      DS_SEL |-> "ds_sel", ES_SEL |-> "es_sel", FS_SEL |-> "fs_sel",
      GS_SEL |-> "gs_sel", SS_SEL |-> "ss_sel", TR_SEL |-> "tr_sel",
      LDTR_SEL |-> "ldtr_sel", CS_LIMIT |-> "cs_limit",
      DS_LIMIT |-> "ds_limit", ES_LIMIT |-> "es_limit",
      FS_LIMIT |-> "fs_limit", GS_LIMIT |-> "gs_limit",
      SS_LIMIT |-> "ss_limit", TR_LIMIT |-> "tr_limit",
      LDTR_LIMIT |-> "ldtr_limit", IDTR_LIMIT |-> "idtr_limit",
      GDTR_LIMIT |-> "gdtr_limit", CS_BASE |-> "cs_base",
      DS_BASE |-> "ds_base", ES_BASE |-> "es_base", FS_BASE |-> "fs_base",
      GS_BASE |-> "gs_base", SS_BASE |-> "ss_base", TR_BASE |-> "tr_base",
      LDTR_BASE |-> "ldtr_base", IDTR_BASE |-> "idtr_base",
      GDTR_BASE |-> "gdtr_base", CS_ARBYTES |-> "cs_arbytes",
      DS_ARBYTES |-> "ds_arbytes", ES_ARBYTES |-> "es_arbytes",
      FS_ARBYTES |-> "fs_arbytes", GS_ARBYTES |-> "gs_arbytes",
      SS_ARBYTES |-> "ss_arbytes", TR_ARBYTES |-> "tr_arbytes",
      LDTR_ARBYTES |-> "ldtr_arbytes", SYSENTER_CS |-> "sysenter_cs",
      SYSENTER_ESP |-> "sysenter_esp", SYSENTER_EIP |-> "sysenter_eip",
      SHADOW_GS |-> "shadow_gs", MSR_FLAGS |-> "msr_flags",
      MSR_LSTAR |-> "msr_lstar", MSR_CSTAR |-> "msr_cstar",
      MSR_SYSCALL_MASK |-> "msr_syscall_mask", MSR_EFER |-> "msr_efer",
      MSR_TSC_AUX |-> "msr_tsc_aux", TSC |-> "tsc" ]

\* xen_get_vcpureg_pv64: switch (reg), the field each case reads
Pv64GetField ==
    [ RAX |-> "user_regs.rax", RBX |-> "user_regs.rbx",
      RCX |-> "user_regs.rcx", RDX |-> "user_regs.rdx",
      RBP |-> "user_regs.rbp", RSI |-> "user_regs.rsi",
      RDI |-> "user_regs.rdi", RSP |-> "user_regs.rsp",
      R8 |-> "user_regs.r8", R9 |-> "user_regs.r9", R10 |-> "user_regs.r10",
      R11 |-> "user_regs.r11", R12 |-> "user_regs.r12",
      R13 |-> "user_regs.r13", R14 |-> "user_regs.r14",
      R15 |-> "user_regs.r15", RIP |-> "user_regs.rip",
      RFLAGS |-> "user_regs.rflags", CR0 |-> "ctrlreg[0]",
      CR2 |-> "ctrlreg[2]", CR3 |-> "ctrlreg[3]", CR4 |-> "ctrlreg[4]",
      DR0 |-> "debugreg[0]", DR1 |-> "debugreg[1]", DR2 |-> "debugreg[2]",
      DR3 |-> "debugreg[3]", DR6 |-> "debugreg[6]", DR7 |-> "debugreg[7]",
      FS_BASE |-> "fs_base", GS_BASE |-> "gs_base_kernel",
      LDTR_BASE |-> "ldt_base" ]

\* xen_set_vcpureg_pv64: switch (reg), the field each case assigns
Pv64SetField ==
    [ RAX |-> "user_regs.rax", RBX |-> "user_regs.rbx",
      RCX |-> "user_regs.rcx", RDX |-> "user_regs.rdx",
      RBP |-> "user_regs.rbp", RSI |-> "user_regs.rsi",
      RDI |-> "user_regs.rdi", RSP |-> "user_regs.rsp",
      R8 |-> "user_regs.r8", R9 |-> "user_regs.r9", R10 |-> "user_regs.r10",
      R11 |-> "user_regs.r11", R12 |-> "user_regs.r12",
      R13 |-> "user_regs.r13", R14 |-> "user_regs.r14",
      R15 |-> "user_regs.r15", RIP |-> "user_regs.rip",
      RFLAGS |-> "user_regs.rflags", CR0 |-> "ctrlreg[0]",
      CR2 |-> "ctrlreg[2]", CR3 |-> "ctrlreg[3]", CR4 |-> "ctrlreg[4]",
      DR0 |-> "debugreg[0]", DR1 |-> "debugreg[1]", DR2 |-> "debugreg[2]",
      DR3 |-> "debugreg[3]", DR6 |-> "debugreg[6]", DR7 |-> "debugreg[7]",
      FS_BASE |-> "fs_base", GS_BASE |-> "gs_base_kernel",
      LDTR_BASE |-> "ldt_base" ]

\* xen_get_vcpureg_pv32: switch (reg), the field each case reads
Pv32GetField ==
    [ RAX |-> "user_regs.eax", RBX |-> "user_regs.ebx",
      RCX |-> "user_regs.ecx", RDX |-> "user_regs.edx",
      RBP |-> "user_regs.ebp", RSI |-> "user_regs.esi",
      RDI |-> "user_regs.edi", RSP |-> "user_regs.esp",
      RIP |-> "user_regs.eip", RFLAGS |-> "user_regs.eflags",
      CR0 |-> "ctrlreg[0]", CR2 |-> "ctrlreg[2]", CR3 |-> "ctrlreg[3]",
      CR4 |-> "ctrlreg[4]", DR0 |-> "debugreg[0]", DR1 |-> "debugreg[1]",
      DR2 |-> "debugreg[2]", DR3 |-> "debugreg[3]", DR6 |-> "debugreg[6]",
      DR7 |-> "debugreg[7]", LDTR_BASE |-> "ldt_base" ]

\* xen_set_vcpureg_pv32: switch (reg), the field each case assigns
Pv32SetField ==
    [ RAX |-> "user_regs.eax", RBX |-> "user_regs.ebx",
      RCX |-> "user_regs.ecx", RDX |-> "user_regs.edx",
      RBP |-> "user_regs.ebp", RSI |-> "user_regs.esi",
      RDI |-> "user_regs.edi", RSP |-> "user_regs.esp",
      RIP |-> "user_regs.eip", RFLAGS |-> "user_regs.eflags",
      CR0 |-> "ctrlreg[0]", CR2 |-> "ctrlreg[2]", CR3 |-> "ctrlreg[3]",
      CR4 |-> "ctrlreg[4]", DR0 |-> "debugreg[0]", DR1 |-> "debugreg[1]",
      DR2 |-> "debugreg[2]", DR3 |-> "debugreg[3]", DR6 |-> "debugreg[6]",
      DR7 |-> "debugreg[7]", LDTR_BASE |-> "ldt_base" ]

\* the registers of registers_t the driver has a case for
Registers == DOMAIN HvmGetField

\* the values written, and what the contexts hold before
ValueInputs == { 0, 5, 4096, 4097, 2147479552 }
ContextInputs == { 0, 8192 }

\* what the caller's reg_t holds before a read
ValueBefore == 9

\* the fields of the context of each kind of guest
Range(f) == { f[x] : x \in DOMAIN f }
HvmFields == Range(HvmGetField) \cup Range(HvmSetField)
Pv64Fields == Range(Pv64GetField) \cup Range(Pv64SetField)
Pv32Fields == Range(Pv32GetField) \cup Range(Pv32SetField)

\* the cases of the switch of the functions for hardware-virtualized guests:
\* the case of MSR_TSC_AUX is there when DECLARE_HVM_SAVE_TYPE_COMPAT is
HvmCases(c) ==
    IF c.DECLARE_HVM_SAVE_TYPE_COMPAT THEN DOMAIN HvmGetField
    ELSE DOMAIN HvmGetField \ { "MSR_TSC_AUX" }

\* xen_cr3_to_pfn_x86_64, xen_pfn_to_cr3_x86_64: a shift by 12
xen_cr3_to_pfn_x86_64(cr3) == cr3 \div 4096
\* the conversion of a frame number, were it to leave the number as it is
xen_pfn_to_cr3_x86_64_unshifted(pfn) == pfn
xen_pfn_to_cr3_x86_64(pfn) == pfn * 4096

\* xen_cr3_to_pfn_x86_32, xen_pfn_to_cr3_x86_32: a rotation of 32 bits by 12
xen_cr3_to_pfn_x86_32(cr3) ==
    BitOr((cr3 \div 4096) % 2 ^ 20, (cr3 % 4096) * 2 ^ 20)
xen_pfn_to_cr3_x86_32(pfn) ==
    BitOr((pfn % 2 ^ 20) * 4096, (pfn \div 2 ^ 20) % 4096)

Got(rc, value) == [ rc |-> rc, value |-> value ]

\* xen_get_vcpureg_hvm; ok: xc_domain_hvm_getcontext_partial hands out the
\* context, which it does for no vcpu the guest has not
xen_get_vcpureg_hvm(c, value, reg, cpu, ok) ==
    IF ~ok \/ cpu \notin DOMAIN c.guest THEN Got(VMI_FAILURE, value)
    ELSE IF reg \in HvmCases(c)
    THEN Got(VMI_SUCCESS, c.guest[cpu][HvmGetField[reg]])
    ELSE Got(VMI_FAILURE, value)

\* the driver calls libxc: the call is added to those of the register write
\* under way
XcCalled(c, call) == [ c EXCEPT !.calls = Append(@, call) ]

\* xen_set_vcpureg_hvm, were it to assign the field in the first CPU record
\* whatever its instance
xen_set_vcpureg_hvm_first_record(c, value, reg, cpu, ok) ==
    LET sized == XcCalled(c, "xc_domain_hvm_getcontext(0, 0)")
        fetched == [ XcCalled(sized, "xc_domain_hvm_getcontext(buf, size)")
                       EXCEPT !.fetched = IF ok.fetch THEN << c.guest >> ELSE << >> ]
    IN  IF ~ok.size THEN Ret(VMI_FAILURE, sized)
        ELSE IF ~ok.fetch THEN Ret(VMI_FAILURE, fetched)
        ELSE IF cpu \notin DOMAIN c.guest THEN Ret(VMI_FAILURE, fetched)
        ELSE LET known == reg \in HvmCases(c)
                 buf == IF known
                        THEN [ c.guest EXCEPT ![0][HvmSetField[reg]] = value ]
                        ELSE c.guest
                 ret == IF known THEN VMI_SUCCESS ELSE VMI_FAILURE
                 handed == [ XcCalled(fetched, "xc_domain_hvm_setcontext(buf, size)")
                            EXCEPT !.copy = << buf >>, !.sent = << buf >> ]
             IN  IF ~ok.put THEN Ret(VMI_FAILURE, handed)
                 ELSE Ret(ret, [ handed EXCEPT !.guest = buf ])

\* xen_set_vcpureg_hvm; ok: the size of the context is given, the context is
\* fetched, the context is taken back.  The context is the CPU records by
\* instance: the loop over the descriptors finds the record of vcpu or none.
xen_set_vcpureg_hvm(c, value, reg, cpu, ok) ==
    LET sized == XcCalled(c, "xc_domain_hvm_getcontext(0, 0)")
        fetched == [ XcCalled(sized, "xc_domain_hvm_getcontext(buf, size)")
                       EXCEPT !.fetched = IF ok.fetch THEN << c.guest >> ELSE << >> ]
    IN  IF ~ok.size THEN Ret(VMI_FAILURE, sized)
        ELSE IF ~ok.fetch THEN Ret(VMI_FAILURE, fetched)
        ELSE IF cpu \notin DOMAIN c.guest THEN Ret(VMI_FAILURE, fetched)
        ELSE LET known == reg \in HvmCases(c)
                 buf == IF known
                        THEN [ c.guest EXCEPT ![cpu][HvmSetField[reg]] = value ]
                        ELSE c.guest
                 ret == IF known THEN VMI_SUCCESS ELSE VMI_FAILURE
                 handed == [ XcCalled(fetched, "xc_domain_hvm_setcontext(buf, size)")
                            EXCEPT !.copy = << buf >>, !.sent = << buf >> ]
             IN  IF ~ok.put THEN Ret(VMI_FAILURE, handed)
                 ELSE Ret(ret, [ handed EXCEPT !.guest = buf ])

\* xen_get_vcpureg_pv64; ok: xc_vcpu_getcontext hands out the context
xen_get_vcpureg_pv64(c, value, reg, cpu, ok) ==
    IF ~ok \/ cpu \notin DOMAIN c.guest THEN Got(VMI_FAILURE, value)
    ELSE IF reg \notin DOMAIN Pv64GetField THEN Got(VMI_FAILURE, value)
    ELSE LET field == c.guest[cpu][Pv64GetField[reg]]
         IN  IF reg = "CR3"
             THEN Got(VMI_SUCCESS,
                      xen_cr3_to_pfn_x86_64(field) * 2 ^ XC_PAGE_SHIFT)
             ELSE Got(VMI_SUCCESS, field)

\* xen_set_vcpureg_pv64
xen_set_vcpureg_pv64(c, value, reg, cpu, ok) ==
    LET got == ok.fetch /\ cpu \in DOMAIN c.guest
        fetched == [ XcCalled(c, "xc_vcpu_getcontext")
                       EXCEPT !.fetched = IF got THEN << c.guest >> ELSE << >> ]
    IN  IF ~got THEN Ret(VMI_FAILURE, fetched)
        ELSE IF reg \notin DOMAIN Pv64SetField THEN Ret(VMI_FAILURE, fetched)
        ELSE LET v == IF reg = "CR3"
                      THEN xen_pfn_to_cr3_x86_64(value \div 2 ^ XC_PAGE_SHIFT)
                      ELSE value
                 ctxt == [ c.guest EXCEPT ![cpu][Pv64SetField[reg]] = v ]
                 handed == [ XcCalled(fetched, "xc_vcpu_setcontext")
                            EXCEPT !.copy = << ctxt >>, !.sent = << ctxt >> ]
             IN  IF ~ok.put THEN Ret(VMI_FAILURE, handed)
                 ELSE Ret(VMI_SUCCESS, [ handed EXCEPT !.guest = ctxt ])

\* xen_get_vcpureg_pv32
xen_get_vcpureg_pv32(c, value, reg, cpu, ok) ==
    IF ~ok \/ cpu \notin DOMAIN c.guest THEN Got(VMI_FAILURE, value)
    ELSE IF reg \notin DOMAIN Pv32GetField THEN Got(VMI_FAILURE, value)
    ELSE LET field == c.guest[cpu][Pv32GetField[reg]]
         IN  IF reg = "CR3"
             THEN Got(VMI_SUCCESS,
                      xen_cr3_to_pfn_x86_32(field) * 2 ^ XC_PAGE_SHIFT)
             ELSE Got(VMI_SUCCESS, field)

\* xen_set_vcpureg_pv32, were its switch to lack the case of LDTR_BASE
xen_set_vcpureg_pv32_no_ldtr_base(c, value, reg, cpu, ok) ==
    LET got == ok.fetch /\ cpu \in DOMAIN c.guest
        fetched == [ XcCalled(c, "xc_vcpu_getcontext")
                       EXCEPT !.fetched = IF got THEN << c.guest >> ELSE << >> ]
    IN  IF ~got THEN Ret(VMI_FAILURE, fetched)
        ELSE IF reg \notin DOMAIN Pv32SetField \ { "LDTR_BASE" }
        THEN Ret(VMI_FAILURE, fetched)
        ELSE LET v == IF reg = "CR3"
                      THEN xen_pfn_to_cr3_x86_32(value \div 2 ^ XC_PAGE_SHIFT)
                      ELSE value
                 ctxt == [ c.guest EXCEPT ![cpu][Pv32SetField[reg]] = v ]
             IN  Ret(VMI_SUCCESS, [ fetched EXCEPT !.copy = << ctxt >> ])

\* xen_set_vcpureg_pv32: the context is fetched and the field assigned in
\* the copy; the copy is not handed back to the hypervisor
xen_set_vcpureg_pv32(c, value, reg, cpu, ok) ==
    LET got == ok.fetch /\ cpu \in DOMAIN c.guest
        fetched == [ XcCalled(c, "xc_vcpu_getcontext")
                       EXCEPT !.fetched = IF got THEN << c.guest >> ELSE << >> ]
    IN  IF ~got THEN Ret(VMI_FAILURE, fetched)
        ELSE IF reg \notin DOMAIN Pv32SetField THEN Ret(VMI_FAILURE, fetched)
        ELSE LET v == IF reg = "CR3"
                      THEN xen_pfn_to_cr3_x86_32(value \div 2 ^ XC_PAGE_SHIFT)
                      ELSE value
                 ctxt == [ c.guest EXCEPT ![cpu][Pv32SetField[reg]] = v ]
             IN  Ret(VMI_SUCCESS, [ fetched EXCEPT !.copy = << ctxt >> ])

\* the read, were a failed read to zero the caller's value
xen_get_vcpureg_zeroes(c, value, reg, cpu, ok) ==
    IF ~c.hvm
    THEN IF 8 = c.addr_width
         THEN xen_get_vcpureg_pv64(c, 0, reg, cpu, ok)
         ELSE xen_get_vcpureg_pv32(c, 0, reg, cpu, ok)
    ELSE xen_get_vcpureg_hvm(c, 0, reg, cpu, ok)

\* xen_get_vcpureg
xen_get_vcpureg(c, value, reg, cpu, ok) ==
    IF ~c.hvm
    THEN IF 8 = c.addr_width
         THEN xen_get_vcpureg_pv64(c, value, reg, cpu, ok)
         ELSE xen_get_vcpureg_pv32(c, value, reg, cpu, ok)
    ELSE xen_get_vcpureg_hvm(c, value, reg, cpu, ok)

\* xen_set_vcpureg
xen_set_vcpureg(c, value, reg, cpu, ok) ==
    IF ~c.hvm
    THEN IF 8 = c.addr_width
         THEN xen_set_vcpureg_pv64(c, value, reg, cpu, ok)
         ELSE xen_set_vcpureg_pv32(c, value, reg, cpu, ok)
    ELSE xen_set_vcpureg_hvm(c, value, reg, cpu, ok)

NoRegCall == [ op |-> "none" ]

\* the vcpus callers name: those of the guest and one it has not
VcpuInputs == 0 .. NumVcpus

\* one write of any register of any vcpu; the guest is paused: nothing but
\* the driver changes the contexts
CtxSet ==
    /\ ctx.pc = "run"
    /\ ctx.last.op = "none"
    /\ \E reg \in Registers, value \in ValueInputs, cpu \in VcpuInputs,
          ok \in [ size : BOOLEAN, fetch : BOOLEAN, put : BOOLEAN ] :
          LET r == xen_set_vcpureg([ ctx EXCEPT !.calls = << >>,
                                                !.fetched = << >>,
                                                !.copy = << >>,
                                                !.sent = << >> ],
                                   value, reg, cpu, ok)
          IN  ctx' = [ r.s EXCEPT !.last =
                         [ op |-> "set", reg |-> reg, value |-> value,
                           cpu |-> cpu, rc |-> r.rc ] ]
    /\ UNCHANGED << eventVars, put, xen, xs, os, lex >>

\* a read of any register, or of the one written before
CtxGet ==
    /\ ctx.pc = "run"
    /\ ctx.last.op # "get"
    /\ \E reg \in IF ctx.last.op = "set" THEN { ctx.last.reg } ELSE Registers,
          cpu \in IF ctx.last.op = "set" THEN { ctx.last.cpu }
                  ELSE VcpuInputs,
          ok \in BOOLEAN :
          LET r == xen_get_vcpureg(ctx, ValueBefore, reg, cpu, ok)
          IN  ctx' = [ ctx EXCEPT !.last =
                         [ op |-> "get", reg |-> reg, cpu |-> cpu,
                           ok |-> ok, rc |-> r.rc, value |-> r.value,
                           after |-> ctx.last ] ]
    /\ UNCHANGED << eventVars, put, xen, xs, os, lex >>

NextCtx == CtxSet \/ CtxGet

\* a guest of any of the three kinds, in either build, its contexts holding
\* one value in every field
InitCtx ==
    /\ EventsIdle
    /\ put = NoPut /\ xen = NoXen /\ xs = NoXs
    /\ os = NoOs /\ lex = NoLex
    /\ \E hvm, compat \in BOOLEAN, addr_width \in { 4, 8 },
          g \in ContextInputs :
          LET fields == IF hvm THEN HvmFields
                        ELSE IF addr_width = 8 THEN Pv64Fields
                        ELSE Pv32Fields
          IN  ctx = [ pc |-> "run", hvm |-> hvm, addr_width |-> addr_width,
                      DECLARE_HVM_SAVE_TYPE_COMPAT |-> compat,
                      guest |-> [ cpu \in 0 .. NumVcpus - 1 |->
                                    [ f \in fields |-> g ] ],
                      calls |-> << >>, fetched |-> << >>, copy |-> << >>,
                      sent |-> << >>,
                      last |-> NoRegCall ]

SpecCtx == InitCtx /\ [][NextCtx]_vars

\* ------------------------------------------------------------ accessors

VMI_OS_UNKNOWN == "VMI_OS_UNKNOWN"
VMI_OS_LINUX == "VMI_OS_LINUX"
VMI_OS_WINDOWS == "VMI_OS_WINDOWS"

\* win_ver_t; VMI_OS_WINDOWS_NONE is the member of value 0
VMI_OS_WINDOWS_NONE == "VMI_OS_WINDOWS_NONE"
VMI_OS_WINDOWS_UNKNOWN == "VMI_OS_WINDOWS_UNKNOWN"
VMI_OS_WINDOWS_2000 == "VMI_OS_WINDOWS_2000"
VMI_OS_WINDOWS_XP == "VMI_OS_WINDOWS_XP"
VMI_OS_WINDOWS_2003 == "VMI_OS_WINDOWS_2003"
VMI_OS_WINDOWS_VISTA == "VMI_OS_WINDOWS_VISTA"
VMI_OS_WINDOWS_2008 == "VMI_OS_WINDOWS_2008"
VMI_OS_WINDOWS_7 == "VMI_OS_WINDOWS_7"

\* the versions find_windows_version may return for a guest
WinVerInputs ==
    { VMI_OS_WINDOWS_NONE, VMI_OS_WINDOWS_UNKNOWN, VMI_OS_WINDOWS_XP,
      VMI_OS_WINDOWS_7 }

\* the names vmi_get_offset compares offset_name with, in its order
OffsetNames ==
    << "win_tasks", "win_pdbase", "win_pid", "win_pname", "linux_tasks",
       "linux_mm", "linux_pid", "linux_name", "linux_pgd" >>

\* the offset names passed: those known, one that is a config key and no
\* offset name, and the empty string
OffsetNameInputs ==
    { OffsetNames[i] : i \in DOMAIN OffsetNames } \cup { "win_peb", "" }

\* the offsets find_pname_offset may return: 0 when it finds none
PnameInputs == { 0, 372 }

\* what a call of an accessor returns, and the instance it leaves
OsRet(ret, o) == [ ret |-> ret, o |-> o ]

\* vmi_get_ostype
vmi_get_ostype(o) == OsRet(o.os_type, o)

\* vmi_get_winver, where find_windows_version returns found
vmi_get_winver(o, found) ==
    IF VMI_OS_WINDOWS # o.os_type \/ o.partial
    THEN OsRet(VMI_OS_WINDOWS_NONE, o)
    ELSE LET version ==
                 IF o.windows_instance.version = VMI_OS_WINDOWS_NONE
                    \/ o.windows_instance.version = VMI_OS_WINDOWS_UNKNOWN
                 THEN found
                 ELSE o.windows_instance.version
         IN  OsRet(version, [ o EXCEPT !.windows_instance.version = version ])

\* vmi_get_winver_str: the switch from the member to its text
vmi_get_winver_str(o, found) ==
    LET r == vmi_get_winver(o, found)
        ver == r.ret
    IN  OsRet(IF ver \in { VMI_OS_WINDOWS_NONE, VMI_OS_WINDOWS_UNKNOWN,
                           VMI_OS_WINDOWS_2000, VMI_OS_WINDOWS_XP,
                           VMI_OS_WINDOWS_2003, VMI_OS_WINDOWS_VISTA,
                           VMI_OS_WINDOWS_2008, VMI_OS_WINDOWS_7 }
              THEN << "text", ver >>
              ELSE << "text", "<Illegal value for Windows version>" >>,
              r.o)

\* vmi_get_offset, where find_pname_offset returns found; strncmp over 100
\* characters of names shorter than that is equality
vmi_get_offset(o, offset_name, found) ==
    IF offset_name = "win_tasks"
    THEN OsRet(o.windows_instance.tasks_offset, o)
    ELSE IF offset_name = "win_pdbase"
    THEN OsRet(o.windows_instance.pdbase_offset, o)
    ELSE IF offset_name = "win_pid"
    THEN OsRet(o.windows_instance.pid_offset, o)
    ELSE IF offset_name = "win_pname"
    THEN IF o.windows_instance.pname_offset = 0
         THEN OsRet(found, [ o EXCEPT !.windows_instance.pname_offset = found ])
         ELSE OsRet(o.windows_instance.pname_offset, o)
    ELSE IF offset_name = "linux_tasks"
    THEN OsRet(o.linux_instance.tasks_offset, o)
    ELSE IF offset_name = "linux_mm"
    THEN OsRet(o.linux_instance.mm_offset, o)
    ELSE IF offset_name = "linux_pid"
    THEN OsRet(o.linux_instance.pid_offset, o)
    ELSE IF offset_name = "linux_name"
    THEN OsRet(o.linux_instance.name_offset, o)
    ELSE IF offset_name = "linux_pgd"
    THEN OsRet(o.linux_instance.pgd_offset, o)
    ELSE OsRet(0, o)

\* vmi_get_memsize
vmi_get_memsize(o) == OsRet(o.size, o)

\* vmi_get_num_vcpus
vmi_get_num_vcpus(o) == OsRet(o.num_vcpus, o)

\* the accessor returns to its caller
OsReturn(op, arg, r) ==
    /\ os' = [ r.o EXCEPT !.last = [ op |-> op, arg |-> arg ],
                          !.ncalls = @ + 1 ]
    /\ UNCHANGED << eventVars, put, xen, xs, ctx, lex >>

\* the accessors are called at most MaxAccessorCalls times in a behaviour
OsCallable == os.pc = "run" /\ os.ncalls < MaxAccessorCalls

OsGetOstype ==
    /\ OsCallable
    /\ OsReturn("vmi_get_ostype", "", vmi_get_ostype(os))

OsGetWinver ==
    /\ OsCallable
    /\ \E found \in WinVerInputs :
          OsReturn("vmi_get_winver", "", vmi_get_winver(os, found))

OsGetWinverStr ==
    /\ OsCallable
    /\ \E found \in WinVerInputs :
          OsReturn("vmi_get_winver_str", "", vmi_get_winver_str(os, found))

OsGetOffset ==
    /\ OsCallable
    /\ \E offset_name \in OffsetNameInputs, found \in PnameInputs :
          OsReturn("vmi_get_offset", offset_name,
                   vmi_get_offset(os, offset_name, found))

OsGetMemsize ==
    /\ OsCallable
    /\ OsReturn("vmi_get_memsize", "", vmi_get_memsize(os))

OsGetNumVcpus ==
    /\ OsCallable
    /\ OsReturn("vmi_get_num_vcpus", "", vmi_get_num_vcpus(os))

NextOs ==
    \/ OsGetOstype \/ OsGetWinver \/ OsGetWinverStr
    \/ OsGetOffset \/ OsGetMemsize \/ OsGetNumVcpus

\* an instance whose initialisation is over: the OS is Linux or Windows, or
\* none was looked for; a Windows version is known or not, and so is the
\* offset of the process name
InitOs ==
    /\ EventsIdle
    /\ put = NoPut /\ xen = NoXen /\ xs = NoXs /\ ctx = NoCtx /\ lex = NoLex
    /\ \E os_type \in { VMI_OS_UNKNOWN, VMI_OS_LINUX, VMI_OS_WINDOWS },
          version \in WinVerInputs, pname_offset \in PnameInputs :
          os = [ pc |-> "run",
                 os_type |-> os_type,
                 partial |-> os_type = VMI_OS_UNKNOWN,
                 windows_instance |->
                     [ version |-> IF os_type = VMI_OS_WINDOWS THEN version
                                   ELSE VMI_OS_WINDOWS_NONE,
                       kdversion_block |-> 0,
                       tasks_offset |-> IF os_type = VMI_OS_WINDOWS THEN 136 ELSE 0,
                       pdbase_offset |-> IF os_type = VMI_OS_WINDOWS THEN 24 ELSE 0,
                       pid_offset |-> IF os_type = VMI_OS_WINDOWS THEN 132 ELSE 0,
                       pname_offset |-> IF os_type = VMI_OS_WINDOWS THEN pname_offset
                                        ELSE 0 ],
                 linux_instance |->
                     [ tasks_offset |-> IF os_type = VMI_OS_LINUX THEN 520 ELSE 0,
                       mm_offset |-> IF os_type = VMI_OS_LINUX THEN 544 ELSE 0,
                       pid_offset |-> IF os_type = VMI_OS_LINUX THEN 600 ELSE 0,
                       name_offset |-> IF os_type = VMI_OS_LINUX THEN 920 ELSE 0,
                       pgd_offset |-> IF os_type = VMI_OS_LINUX THEN 72 ELSE 0 ],
                 size |-> 4096,
                 num_vcpus |-> NumVcpus,
                 last |-> [ op |-> "none", arg |-> "" ],
                 ncalls |-> 0 ]

SpecOs == InitOs /\ [][NextOs]_vars

\* ------------------------------------------------------------ config lexer

\* text is a sequence of characters
LexDigits == { "0", "1", "2", "3", "4", "5", "6", "7", "8", "9" }

LexHexLetters ==
    { "a", "b", "c", "d", "e", "f", "A", "B", "C", "D", "E", "F" }

LexLetters ==
    {
      "a", "b", "c", "d", "e", "f", "g", "h", "i", "j", "k", "l", "m", "n",
      "o", "p", "q", "r", "s", "t", "u", "v", "w", "x", "y", "z", "A", "B",
      "C", "D", "E", "F", "G", "H", "I", "J", "K", "L", "M", "N", "O", "P",
      "Q", "R", "S", "T", "U", "V", "W", "X", "Y", "Z" }

\* [a-zA-Z0-9]
LexAlnum == LexLetters \cup LexDigits

\* the rules of the lexer in the order of the file: a keyword rule matches
\* its text, a pattern rule what its kind says; tok is the token the
\* rule's action returns, "" when the action returns none
Keyword(text, tok) == [ kind |-> "keyword", text |-> text, tok |-> tok ]
Pattern(kind, tok) == [ kind |-> kind, text |-> << >>, tok |-> tok ]

Rules ==
    << Keyword(<< "l", "i", "n", "u", "x", "_", "t", "a", "s", "k", "s" >>,
               "LINUX_TASKS"),
       Keyword(<< "l", "i", "n", "u", "x", "_", "m", "m" >>,
               "LINUX_MM"),
       Keyword(<< "l", "i", "n", "u", "x", "_", "n", "a", "m", "e" >>,
               "LINUX_NAME"),
       Keyword(<< "l", "i", "n", "u", "x", "_", "p", "i", "d" >>,
               "LINUX_PID"),
       Keyword(<< "l", "i", "n", "u", "x", "_", "p", "g", "d" >>,
               "LINUX_PGD"),
       Keyword(<< "l", "i", "n", "u", "x", "_", "a", "d", "d", "r" >>,
               "LINUX_ADDR"),
       Keyword(<< "n", "t", "o", "s", "k", "r", "n", "l" >>,
               "WIN_NTOSKRNL"),
       Keyword(<< "w", "i", "n", "_", "t", "a", "s", "k", "s" >>,
               "WIN_TASKS"),
       Keyword(<< "w", "i", "n", "_", "p", "d", "b", "a", "s", "e" >>,
               "WIN_PDBASE"),
       Keyword(<< "w", "i", "n", "_", "p", "i", "d" >>,
               "WIN_PID"),
       Keyword(<< "w", "i", "n", "_", "p", "e", "b" >>,
               "WIN_PEB"),
       Keyword(<< "w", "i", "n", "_", "i", "b", "a" >>,
               "WIN_IBA"),
       Keyword(<< "w", "i", "n", "_", "p", "h" >>,
               "WIN_PH"),
       Keyword(<< "w", "i", "n", "_", "p", "n", "a", "m", "e" >>,
               "WIN_PNAME"),
       Keyword(<< "w", "i", "n", "_", "k", "d", "v", "b" >>,
               "WIN_KDVB"),
       Keyword(<< "w", "i", "n", "_", "s", "y", "s", "p", "r", "o", "c" >>,
               "WIN_SYSPROC"),
       Keyword(<< "s", "y", "s", "m", "a", "p" >>,
               "SYSMAPTOK"),
       Keyword(<< "o", "s", "t", "y", "p", "e" >>,
               "OSTYPETOK"),
       Pattern("num", "NUM"),
       Pattern("word", "WORD"),
       Pattern("filename", "FILENAME"),
       Keyword(<< "\"" >>, "QUOTE"),
       Keyword(<< "{" >>, "OBRACE"),
       Keyword(<< "}" >>, "EBRACE"),
       Keyword(<< ";" >>, "SEMICOLON"),
       Keyword(<< "=" >>, "EQUALS"),
       Keyword(<< "\n" >>, ""),
       Pattern("space", ""),
       Pattern("comment", "") >>

\* the configuration keys, as texts
ConfigKeys ==
    { << "l", "i", "n", "u", "x", "_", "t", "a", "s", "k", "s" >>,
      << "l", "i", "n", "u", "x", "_", "m", "m" >>,
      << "l", "i", "n", "u", "x", "_", "n", "a", "m", "e" >>,
      << "l", "i", "n", "u", "x", "_", "p", "i", "d" >>,
      << "l", "i", "n", "u", "x", "_", "p", "g", "d" >>,
      << "l", "i", "n", "u", "x", "_", "a", "d", "d", "r" >>,
      << "w", "i", "n", "_", "n", "t", "o", "s", "k", "r", "n", "l" >>,
      << "w", "i", "n", "_", "t", "a", "s", "k", "s" >>,
      << "w", "i", "n", "_", "p", "d", "b", "a", "s", "e" >>,
      << "w", "i", "n", "_", "p", "i", "d" >>,
      << "w", "i", "n", "_", "p", "e", "b" >>,
      << "w", "i", "n", "_", "i", "b", "a" >>,
      << "w", "i", "n", "_", "p", "h" >>,
      << "w", "i", "n", "_", "p", "n", "a", "m", "e" >>,
      << "w", "i", "n", "_", "k", "d", "v", "b" >>,
      << "w", "i", "n", "_", "s", "y", "s", "p", "r", "o", "c" >>,
      << "o", "s", "t", "y", "p", "e" >>,
      << "s", "y", "s", "m", "a", "p" >> }

RECURSIVE LexRun(_, _)
\* how many characters at the head of the text are in the class
LexRun(class, in) ==
    IF in # << >> /\ Head(in) \in class THEN 1 + LexRun(class, Tail(in)) ELSE 0

RECURSIVE LexRunToNewline(_)
\* [^\n]*: how many characters come before the first newline, or the end
LexRunToNewline(in) ==
    IF in # << >> /\ Head(in) # "\n" THEN 1 + LexRunToNewline(Tail(in)) ELSE 0

\* how many characters at the head of the text the rule matches at most,
\* 0 when it matches none
MatchLen(rule, in) ==
    CASE rule.kind = "keyword" ->
            IF Len(in) >= Len(rule.text)
               /\ SubSeq(in, 1, Len(rule.text)) = rule.text
            THEN Len(rule.text) ELSE 0
      [] rule.kind = "num" ->
            \* 0x[0-9a-fA-F]+|[0-9]+
            LET hex == IF Len(in) > 2 /\ in[1] = "0" /\ in[2] = "x"
                       THEN LexRun(LexDigits \cup LexHexLetters, SubSeq(in, 3, Len(in)))
                       ELSE 0
                dec == LexRun(LexDigits, in)
            IN  IF hex > 0 THEN hex + 2 ELSE dec
      [] rule.kind = "word" ->
            \* [a-zA-Z0-9][a-zA-Z0-9._-]+
            IF in # << >> /\ Head(in) \in LexAlnum
               /\ LexRun(LexAlnum \cup { ".", "_", "-" }, Tail(in)) > 0
            THEN 1 + LexRun(LexAlnum \cup { ".", "_", "-" }, Tail(in))
            ELSE 0
      [] rule.kind = "filename" ->
            \* [a-zA-Z0-9\/._-]+
            LexRun(LexAlnum \cup { "/", ".", "_", "-" }, in)
      [] rule.kind = "space" ->
            \* [ \t]+
            LexRun({ " ", "\t" }, in)
      [] rule.kind = "comment" ->
            \* #[^\n]*\n
            IF in # << >> /\ Head(in) = "#"
               /\ LexRunToNewline(Tail(in)) + 1 < Len(in)
            THEN LexRunToNewline(Tail(in)) + 2
            ELSE 0

\* the rule the scanner takes: the longest match, the earliest rule among
\* those of that length; 0 when no rule matches
Longest(in) ==
    LET len(i) == MatchLen(Rules[i], in)
        best == { i \in DOMAIN Rules :
                     /\ len(i) > 0
                     /\ \A j \in DOMAIN Rules :
                           len(j) < len(i) \/ (len(j) = len(i) /\ i <= j) }
    IN  IF best = {} THEN 0 ELSE CHOOSE i \in best : TRUE

\* what yylex returns at the end of the text
YY_NULL == "YY_NULL"

RECURSIVE yylex(_)
\* one call of yylex on the text left: text matched by a rule with no return
\* is dropped, a character no rule matches is echoed and dropped, and the
\* call returns the token of the first rule that returns one, with yytext
\* and the text left; YY_NULL at the end of the text
yylex(in) ==
    IF in = << >> THEN [ tok |-> YY_NULL, yytext |-> << >>, rest |-> << >> ]
    ELSE LET i == Longest(in)
         IN  IF i = 0 THEN yylex(Tail(in))
             ELSE LET n == MatchLen(Rules[i], in)
                  IN  IF Rules[i].tok = ""
                      THEN yylex(SubSeq(in, n + 1, Len(in)))
                      ELSE [ tok |-> Rules[i].tok,
                             yytext |-> SubSeq(in, 1, n),
                             rest |-> SubSeq(in, n + 1, Len(in)) ]

\* the tokens that are no keyword's
LexGeneric == { "NUM", "WORD", "FILENAME" }

\* the parser calls yylex once more
LexNext ==
    /\ lex.pc = "run"
    /\ LET r == yylex(lex.input)
       IN  lex' = [ lex EXCEPT
                      !.input = r.rest,
                      !.tokens = IF r.tok = YY_NULL THEN @
                                 ELSE Append(@, [ tok |-> r.tok,
                                                  yytext |-> r.yytext ]),
                      !.pc = IF r.tok = YY_NULL THEN "done" ELSE "run" ]
    /\ UNCHANGED << eventVars, put, xen, xs, ctx, os >>

NextLex == LexNext

\* the texts scanned: every configuration key alone, every key in an entry
\* with a value, and texts that are no key
LexInputs ==
    ConfigKeys
    \cup { k \o << " ", "=", " ", "0", "x", "8", "4", ";", "\n" >> : k \in ConfigKeys }
    \cup { k \o << "\n" >> : k \in ConfigKeys }
    \cup {
      << "n", "t", "o", "s", "k", "r", "n", "l" >>,
      << "w", "i", "n", "_", "p", "i", "d", "x" >>,
      << "w", "i", "n" >>,
      << "l", "i", "n", "u", "x", "_", "p", "i", "d", ".", "o", "l", "d" >>,
      << "0", "x", "1", "F" >>,
      << "0", "x" >>,
      << "4", "2" >>,
      << "4", "2", "a" >>,
      << "/", "b", "o", "o", "t", "/", "S", "y", "s", "t", "e", "m", ".", "m", "a", "p" >>,
      << "{", " ", "o", "s", "t", "y", "p", "e", " ", "=", " ", "\"", "W", "i", "n", "d", "o", "w", "s", "\"", ";", " ", "}" >>,
      << "#", " ", "w", "i", "n", "_", "p", "i", "d", "\n", "w", "i", "n", "_", "p", "i", "d" >>,
      << "#", " ", "w", "i", "n", "_", "p", "i", "d" >>,
      << "w", "i", "n", "_", "p", "i", "d", "\t", "w", "i", "n", "_", "p", "e", "b" >>,
      << "w", "i", "n", "_", "p", "i", "d", "@" >> }

InitLex ==
    /\ EventsIdle
    /\ put = NoPut /\ xen = NoXen /\ xs = NoXs /\ ctx = NoCtx /\ os = NoOs
    /\ \E in \in LexInputs :
          lex = [ pc |-> "run", input0 |-> in, input |-> in, tokens |-> << >> ]

SpecLex == InitLex /\ [][NextLex]_vars

\* ------------------------------------------------------------ properties

\* the combination of the accesses registered on a page: the page-level
\* event's, if set, and every byte event's, taken in the given order
PageCombination(page, order) ==
    FoldAccess(Cur,
               IF page.event # NULL
               THEN combine_mem_access(VMI_MEMACCESS_N, event[page.event].in_access)
               ELSE VMI_MEMACCESS_N,
               page.byte_events, order)

\* C1: after any sequence of register and clear calls, the access_flag of
\* every live page descriptor is the combination of the in_access of its
\* page-level event (if set) and of all its byte events.
C1_MaskIsCombination ==
    pc = "run" =>
        \A p \in DOMAIN mem_events :
            \A order \in Orders(DOMAIN mem_events[p].byte_events) :
                mem_events[p].access_flag = PageCombination(mem_events[p], order)

\* C2: the access the backend last accepted for a page with a live
\* descriptor is the descriptor's access_flag; while the instance is not
\* shutting down, a page without a descriptor was never programmed or was
\* last programmed with access none.
C2_ProgrammedMatchesDescriptor ==
    /\ \A p \in DOMAIN mem_events :
          p \in DOMAIN hv_mem /\ hv_mem[p] = mem_events[p].access_flag
    /\ ~shutting_down =>
          \A p \in Pages \ DOMAIN mem_events :
              p \in DOMAIN hv_mem => hv_mem[p] = VMI_MEMACCESS_N

\* a clear the backend refused has just returned; page 0 holds two byte
\* events and is programmed read|write; page 1 was programmed and has no
\* descriptor any more
C2_Witness ==
    /\ last.op = "vmi_clear_event" /\ last.rc = VMI_FAILURE /\ last.nrej = 1
    /\ 0 \in DOMAIN mem_events
    /\ Cardinality(DOMAIN mem_events[0].byte_events) = 2
    /\ mem_events[0].access_flag = VMI_MEMACCESS_RW
    /\ hv_mem[0] = VMI_MEMACCESS_RW
    /\ 1 \notin DOMAIN mem_events
    /\ 1 \in DOMAIN hv_mem

\* whether the key an event object is registered under is in no table
Absent(obj) ==
    IF obj.type = VMI_EVENT_REGISTER
    THEN obj.reg \notin DOMAIN reg_events
    ELSE IF obj.type = VMI_EVENT_MEMORY
    THEN LET page_key == PageKey(obj.physical_address)
         IN  \/ page_key \notin DOMAIN mem_events
             \/ IF obj.granularity = VMI_MEMEVENT_PAGE
                THEN mem_events[page_key].event = NULL
                ELSE obj.physical_address
                         \notin DOMAIN mem_events[page_key].byte_events
    ELSE IF obj.type = VMI_EVENT_SINGLESTEP
    THEN \A vcpu \in obj.vcpus : vcpu \notin DOMAIN ss_events
    ELSE TRUE

\* the calls that report success or failure to the caller
StatusCalls ==
    { "vmi_register_event", "vmi_clear_event", "vmi_stop_single_step_vcpu" }

\* C3: when vmi_clear_event has returned success on an instance that is not
\* shutting down, the cleared event's key is in no table: its register, its
\* page-level slot, its byte address, or every vcpu of its bitset.
C3_ClearedKeyAbsent ==
    (last.op = "vmi_clear_event" /\ last.rc = VMI_SUCCESS /\ ~shutting_down)
        => Absent(last.obj)

\* C4: a call of vmi_register_event, vmi_clear_event or
\* vmi_stop_single_step_vcpu that returns failure leaves mem_events,
\* reg_events and ss_events exactly as they were before the call.
C4_FailureLeavesTables ==
    [][ (pc = "run" /\ last'.op \in StatusCalls /\ last'.rc = VMI_FAILURE)
            => /\ mem_events' = mem_events
               /\ reg_events' = reg_events
               /\ ss_events' = ss_events ]_vars

\* C9: vmi_clear_event on an event whose key has no registration when the
\* call is made returns failure.
C9_ClearUnregisteredFails ==
    [][ (pc = "run" /\ last'.op = "vmi_clear_event" /\ Absent(last'.obj))
            => last'.rc = VMI_FAILURE ]_vars

\* whether the slot a memory event object would be registered in is taken
Occupied(obj) ==
    LET page == mem_events[PageKey(obj.physical_address)]
    IN  IF obj.granularity = VMI_MEMEVENT_PAGE
        THEN page.event # NULL
        ELSE obj.physical_address \in DOMAIN page.byte_events

\* a call registers a memory event on a page that has a descriptor
RegistersFurther ==
    /\ pc = "run"
    /\ last'.op = "vmi_register_event"
    /\ last'.obj.type = VMI_EVENT_MEMORY
    /\ PageKey(last'.obj.physical_address) \in DOMAIN mem_events

\* the registration asked for is one the registry admits
Admitted ==
    /\ combine_mem_access(
           mem_events[PageKey(last'.obj.physical_address)].access_flag,
           last'.obj.in_access) # VMI_MEMACCESS_INVALID
    /\ ~Occupied(last'.obj)

\* execute-on-write is asked for on a page whose mask is read
XOnWriteOnRead ==
    /\ last'.obj.in_access = VMI_MEMACCESS_X_ON_WRITE
    /\ mem_events[PageKey(last'.obj.physical_address)].access_flag
           = VMI_MEMACCESS_R

\* the call has left descriptors, registrations and programmed masks alone
MemUntouched ==
    /\ mem_events' = mem_events
    /\ registered' = registered
    /\ hv_mem' = hv_mem

\* C5 as stated: on a page with a descriptor a further registration succeeds
\* if and only if the combined mask is not invalid and the key is free;
\* execute-on-write on a page whose mask is read fails and changes nothing.
C5_SucceedsIffAdmitted ==
    [][ RegistersFurther =>
            /\ last'.rc = VMI_SUCCESS <=> Admitted
            /\ XOnWriteOnRead => (last'.rc = VMI_FAILURE /\ MemUntouched) ]_vars

\* C5, amended: on a page with a descriptor a further registration succeeds
\* if and only if the event has a callback, the combined mask is not invalid,
\* the key is free and the backend accepts the request; a registration that
\* fails, as execute-on-write on a page whose mask is read does, changes
\* nothing.
C5_SucceedsIffAdmittedAndAccepted ==
    [][ RegistersFurther =>
            /\ last'.rc = VMI_SUCCESS
                  <=> /\ last'.obj.callback # NULL
                      /\ Admitted
                      /\ last'.nrej = 0
            /\ last'.rc = VMI_FAILURE => MemUntouched
            /\ XOnWriteOnRead => last'.rc = VMI_FAILURE ]_vars

\* a byte event asking for execute-on-write has just been refused on page 0,
\* which holds a page-level event and whose mask is read
C5_Witness ==
    /\ last.op = "vmi_register_event" /\ last.rc = VMI_FAILURE
    /\ last.obj.type = VMI_EVENT_MEMORY
    /\ last.obj.callback # NULL
    /\ last.obj.granularity = VMI_MEMEVENT_BYTE
    /\ last.obj.in_access = VMI_MEMACCESS_X_ON_WRITE
    /\ PageKey(last.obj.physical_address) = 0
    /\ 0 \in DOMAIN mem_events
    /\ mem_events[0].event # NULL
    /\ mem_events[0].access_flag = VMI_MEMACCESS_R
    /\ hv_mem[0] = VMI_MEMACCESS_R

\* C6: when events_destroy has run on an instance that is shutting down and
\* the backend has accepted every request, every page that had a descriptor
\* was last programmed with access none, every register that had a
\* registration was last programmed with access none, and no vcpu that had
\* a registration is single-stepping.
C6_TeardownResetsAccess ==
    (pc = "done" /\ shutting_down /\ torn.accepted) =>
        /\ \A p \in torn.mem : hv_mem[p] = VMI_MEMACCESS_N
        /\ \A r \in torn.reg : hv_reg[r] = VMI_REGACCESS_N
        /\ \A v \in torn.ss : v \notin hv_ss

\* the memory events registered on a page
RegisteredOn(p) ==
    { k \in registered :
        IF k[1] = VMI_MEMEVENT_PAGE THEN k[2] = p ELSE PageKey(k[2]) = p }

\* C7: between calls on an instance that is not shutting down, a page has a
\* descriptor if and only if a memory event is registered on it, and the
\* descriptor holds exactly the events registered: a descriptor whose events
\* have all been cleared is gone.
C7_DescriptorIffRegistered ==
    ~shutting_down =>
        \A p \in Pages :
            /\ p \in DOMAIN mem_events <=> RegisteredOn(p) # {}
            /\ p \in DOMAIN mem_events =>
                  /\ mem_events[p].event # NULL
                        <=> << VMI_MEMEVENT_PAGE, p >> \in registered
                  /\ mem_events[p].has_byte_events
                        <=> DOMAIN mem_events[p].byte_events # {}
                  /\ \A a \in PAddrs :
                        a \in DOMAIN mem_events[p].byte_events
                            <=> (PageKey(a) = p
                                 /\ << VMI_MEMEVENT_BYTE, a >> \in registered)

\* the last of the events registered on page 0 has just been cleared, page 0
\* has no descriptor left and page 1 still has one
C7_Witness ==
    /\ ~shutting_down
    /\ last.op = "vmi_clear_event" /\ last.rc = VMI_SUCCESS
    /\ last.obj.type = VMI_EVENT_MEMORY
    /\ PageKey(last.obj.physical_address) = 0
    /\ 0 \in DOMAIN hv_mem
    /\ 0 \notin DOMAIN mem_events
    /\ 1 \in DOMAIN mem_events

\* C8: registering a register event on a register that has a registration
\* fails and leaves the registration as it is, and no register ever has two
\* registrations: reg_events holds the one object registered on it.
C8_SecondRegistrationFails ==
    /\ [][ ( /\ pc = "run"
             /\ last'.op = "vmi_register_event"
             /\ last'.obj.type = VMI_EVENT_REGISTER
             /\ last'.obj.reg \in DOMAIN reg_events )
           => /\ last'.rc = VMI_FAILURE
              /\ reg_events' = reg_events
              /\ hv_reg' = hv_reg
              /\ event'[reg_events[last'.obj.reg]]
                     = event[reg_events[last'.obj.reg]] ]_vars
    /\ [](~shutting_down =>
            /\ \A x, y \in registered : x[1] = y[1] => x = y
            /\ \A x \in registered :
                  x[1] \in DOMAIN reg_events /\ reg_events[x[1]] = x[2]
            /\ \A r \in DOMAIN reg_events : << r, reg_events[r] >> \in registered)

\* a second object has just been refused on a register that stays with the
\* object registered first, without the backend having been asked
C8_Witness ==
    /\ last.op = "vmi_register_event" /\ last.rc = VMI_FAILURE
    /\ last.obj.type = VMI_EVENT_REGISTER
    /\ last.obj.callback # NULL
    /\ last.ncalls = 0
    /\ last.obj.reg \in DOMAIN reg_events
    /\ reg_events[last.obj.reg] # last.ev
    /\ last.obj.in_access # event[reg_events[last.obj.reg]].in_access

\* the bits set in an access mask
Bits(mask) == { b \in { 1, 2, 4, 8, 16 } : (mask \div b) % 2 = 1 }

\* the mask that holds the accesses of both
UnionOf(base, add) ==
    CHOOSE m \in 0 .. 31 : Bits(m) = Bits(base) \cup Bits(add)

\* C10: combine_mem_access returns base if add equals base, the other
\* operand if either is none, invalid if they differ, neither is none and
\* either is execute-on-write, and the bitwise union otherwise; so
\* combine(x, none) = x, combine(x, x) = x and combine(execute-on-write, y)
\* is invalid for y other than execute-on-write and none.
C10_CombineTable ==
    comb.called =>
        /\ comb.result =
              IF comb.add = comb.base THEN comb.base
              ELSE IF comb.add = VMI_MEMACCESS_N THEN comb.base
              ELSE IF comb.base = VMI_MEMACCESS_N THEN comb.add
              ELSE IF VMI_MEMACCESS_X_ON_WRITE \in { comb.base, comb.add }
              THEN VMI_MEMACCESS_INVALID
              ELSE UnionOf(comb.base, comb.add)
        /\ comb.add = VMI_MEMACCESS_N => comb.result = comb.base
        /\ comb.add = comb.base => comb.result = comb.base
        /\ ( /\ comb.base = VMI_MEMACCESS_X_ON_WRITE
             /\ comb.add \notin { VMI_MEMACCESS_X_ON_WRITE, VMI_MEMACCESS_N } )
           => comb.result = VMI_MEMACCESS_INVALID

\* read has been combined onto execute-on-write, and the result is invalid
C10_Witness ==
    /\ comb.called
    /\ comb.base = VMI_MEMACCESS_X_ON_WRITE
    /\ comb.add = VMI_MEMACCESS_R
    /\ comb.result = VMI_MEMACCESS_INVALID

\* C20: clearing a registered register event asks the backend once, for
\* access none on its register; whether the backend accepts or not the
\* caller's event object has the in_access it had; when the backend accepts
\* the entry is removed from reg_events unless the instance is shutting
\* down, and when it refuses the entry stays.
C20_ClearRegRestoresAccess ==
    \A e \in RegEventIds : \A obj \in Passed(e, RegObjClearInputs) :
      \A accept, down \in BOOLEAN :
        LET s == [ Cur EXCEPT !.shutting_down = down, !.event[e] = obj ]
            r == vmi_clear_event(s, e, accept, << >>)
            reg == obj.reg
        IN  reg \in DOMAIN reg_events =>
            /\ r.s.ncalls = 1
            /\ r.s.event[e] = obj
            /\ accept => /\ r.rc = VMI_SUCCESS
                         /\ r.s.hv_reg[reg] = VMI_REGACCESS_N
                         /\ IF down
                            THEN r.s.reg_events = reg_events
                            ELSE r.s.reg_events = Remove(reg_events, reg)
            /\ ~accept => /\ r.rc = VMI_FAILURE
                          /\ r.s.hv_reg = hv_reg
                          /\ r.s.reg_events = reg_events

\* the backend has just refused the clear of a registered register event
\* that asks for write access: the event is still registered, with write
C20_Witness ==
    /\ last.op = "vmi_clear_event" /\ last.rc = VMI_FAILURE /\ last.nrej = 1
    /\ last.obj.type = VMI_EVENT_REGISTER
    /\ last.obj.reg \in DOMAIN reg_events
    /\ reg_events[last.obj.reg] = last.ev
    /\ last.obj.in_access = VMI_REGACCESS_W
    /\ event[last.ev].in_access = VMI_REGACCESS_W

\* the byte of guest memory at a physical address
GuestByte(paddr) == put.frames[paddr \div page_size][paddr % page_size]

\* guest memory holds the first len bytes of the buffer from the address
\* the call was given on, and is untouched everywhere else
WrittenUpTo(len) ==
    \A x \in PutAddrs :
        GuestByte(x) = IF put.paddr <= x /\ x < put.paddr + len
                       THEN put.buf[x - put.paddr + 1]
                       ELSE 0

RECURSIVE Cuts(_, _)
\* a buffer of n bytes for address a, cut at the page boundaries
Cuts(a, n) ==
    IF n = 0 THEN << >>
    ELSE LET room == page_size - (a % page_size)
             len == IF room < n THEN room ELSE n
         IN  << << a, len >> >> \o Cuts(a + len, n - len)

\* C13: when xen_put_memory returns success on a buffer of n > 0 bytes for
\* address a, byte i of the buffer is at a + i for every i < n and no other
\* byte of guest memory has changed; the buffer went in slices of length
\* min(page_size - offset, remaining), the first cut at
\* page_size - (a mod page_size); reading a .. a + n gives the buffer back.
C13_PutWritesBuffer ==
    (put.pc = "done" /\ put.rc = VMI_SUCCESS /\ put.count0 > 0) =>
        /\ WrittenUpTo(put.count0)
        /\ put.slices = Cuts(put.paddr, put.count0)
        /\ put.slices[1][2]
               = IF page_size - (put.paddr % page_size) < put.count0
                 THEN page_size - (put.paddr % page_size)
                 ELSE put.count0
        /\ [ i \in 1 .. put.count0 |-> GuestByte(put.paddr + i - 1) ] = put.buf

\* a write that starts inside a page and ends in the next page but one has
\* returned success
C13_Witness ==
    /\ put.pc = "done" /\ put.rc = VMI_SUCCESS
    /\ put.paddr % page_size # 0
    /\ Len(put.slices) = 3
    /\ put.slices[1][2] < page_size
    /\ GuestByte(put.paddr + put.count0 - 1) = put.count0

\* C14: once the map of a frame has failed in xen_put_memory the call has
\* returned failure: the slices before it are in guest memory, nothing of
\* the slice whose map failed or of a later one is, and no frame has been
\* asked for since.
C14_PutStopsAtFailedMap ==
    put.pc # "idle" =>
        /\ put.ntry > put.nmap =>
              /\ put.pc = "done" /\ put.rc = VMI_FAILURE
              /\ put.ntry = put.nmap + 1
              /\ put.memory = {}
              /\ put.slices = SubSeq(Cuts(put.paddr, put.count0), 1, put.nmap)
              /\ WrittenUpTo(put.buf_offset)
              /\ put.buf_offset + put.count = put.count0
              /\ put.count > 0
        /\ (put.pc = "done" /\ put.rc = VMI_FAILURE) => put.ntry > put.nmap

\* the map of the second frame of a write has failed, on a frame of guest
\* memory: the first slice is written, the rest is not
C14_Witness ==
    /\ put.pc = "done" /\ put.rc = VMI_FAILURE
    /\ put.nmap = 1 /\ put.ntry = 2
    /\ put.pfn \in DOMAIN put.frames
    /\ put.buf_offset > 0
    /\ GuestByte(put.paddr) = 1
    /\ GuestByte(put.paddr + put.buf_offset) = 0

\* C15: at every point of xen_put_memory the call holds at most one frame
\* mapped and the backend's count of mapped frames is its count before the
\* call plus that; when the call has returned, with success or failure, it
\* has released as many frames as it mapped and the backend's count is what
\* it was.
C15_PutReleasesFrames ==
    put.pc # "idle" =>
        /\ Cardinality(put.memory) <= 1
        /\ put.nmap - put.nrel = Cardinality(put.memory)
        /\ put.hv_maps = put.maps0 + Cardinality(put.memory)
        /\ put.pc \in { "loop", "done" } => put.memory = {}
        /\ put.pc = "done" =>
              /\ put.nmap = put.nrel
              /\ put.hv_maps = put.maps0

\* a write has failed on its third frame while the backend held a frame
\* mapped for someone else: two frames were mapped and two released
C15_Witness ==
    /\ put.pc = "done" /\ put.rc = VMI_FAILURE
    /\ put.maps0 = 1 /\ put.hv_maps = 1
    /\ put.nmap = 2 /\ put.nrel = 2 /\ put.ntry = 3

\* what the process holds of what xen_init and xen_set_domainname acquired
XenHolds(x) ==
    x.xc_open # {} \/ x.xs_open # {} \/ x.heap # {} \/ x.events

\* C16: once xen_destroy has run on an initialised instance the process
\* holds neither handle, nor the event state, nor the name, and no call of
\* xen_destroy has closed a handle or freed memory a second time
C16_DestroyReleasesOnce ==
    xen.pc \in { "destroyed", "aborted" } =>
        /\ ~XenHolds(xen)
        /\ xen.stale = 0

\* C17: xen_init called with the events flag in a build without event
\* support returns failure
C17_EventsUnsupportedFails ==
    ( /\ xen.pc \notin { "idle", "new" }
      /\ xen.init_events
      /\ ~xen.ENABLE_XEN_EVENTS ) => xen.rc = VMI_FAILURE

\* C19: once the backend has handed out the context or the address size,
\* the discovery yields 8 for a hardware-virtualized guest with bit 8 of
\* EFER set and 4 for one with it clear; for a paravirtualized guest it
\* yields the eighth of the reported size when that is 4 or 8 and fails
\* otherwise; and after a successful xen_init the width is 4 or 8, in the
\* instance and as xen_get_address_width reports it
C19_AddressWidth ==
    xen.pc \notin { "idle", "new" } =>
        /\ (xen.fetched /\ xen.hvm) =>
              /\ xen.discovered = VMI_SUCCESS
              /\ xen.addr_width =
                    IF (xen.guest.msr_efer \div 256) % 2 = 1 THEN 8 ELSE 4
        /\ (xen.fetched /\ ~xen.hvm) =>
              IF xen.guest.address_size \div 8 \in { 4, 8 }
              THEN /\ xen.discovered = VMI_SUCCESS
                   /\ xen.addr_width = xen.guest.address_size \div 8
              ELSE xen.discovered = VMI_FAILURE
        /\ xen.rc = VMI_SUCCESS => xen.addr_width \in { 4, 8 }
        /\ (xen.rc = VMI_SUCCESS /\ xen.asked) => xen.width \in { 4, 8 }

\* a paravirtualized guest reporting 39 bits is initialised with success and
\* its width asked for; so is a hardware-virtualized one with LMA set
C19_Witness ==
    /\ xen.pc = "inited"
    /\ xen.asked
    /\ \/ ~xen.hvm /\ xen.guest.address_size = 39 /\ xen.width = 4
       \/ xen.hvm /\ xen.guest.msr_efer = 3329 /\ xen.width = 8


\* the entries of the directory
XsEntries == { xs.dir[i] : i \in 1 .. Len(xs.dir) }

\* the entries whose stored name equals name in its first n characters
XsMatches(name, n) ==
    { e \in XsEntries :
        ~xs_read(xs, e).null /\ Take(xs_read(xs, e).s, n) = Take(name.s, n) }

\* a lookup that reached xenstore has returned the id of a domain whose
\* name equals the one asked for in the characters compared, and the invalid
\* id when there is none or the name asked for is null
IdOfName ==
    ( /\ xs.last.op = "id"
      /\ xs.HAVE_LIBXENSTORE
      /\ xs.last.up ) =>
        IF xs.last.name.null \/ XsMatches(xs.last.name, NameCmpLen) = {}
        THEN xs.last.id = VMI_INVALID_DOMID
        ELSE \E e \in XsMatches(xs.last.name, NameCmpLen) :
                xs.last.id = atoi(e)

\* a read that reached xenstore has returned the name stored under the id,
\* and has failed for the invalid id and for an id with no name
NameOfId ==
    ( /\ xs.last.op = "name"
      /\ xs.HAVE_LIBXENSTORE
      /\ xs.last.up ) =>
        LET named == { e \in XsEntries :
                         atoi(e) = xs.last.domid /\ ~xs_read(xs, e).null }
        IN  IF xs.last.domid = VMI_INVALID_DOMID \/ named = {}
            THEN xs.last.rc = VMI_FAILURE
            ELSE /\ xs.last.rc = VMI_SUCCESS
                 /\ \E e \in named : xs.last.name = xs_read(xs, e)

\* no two domains have names that agree in their first n characters
DistinctNames(n) ==
    \A e1, e2 \in XsEntries :
        ( /\ e1 # e2
          /\ ~xs_read(xs, e1).null
          /\ ~xs_read(xs, e2).null ) =>
            Take(xs_read(xs, e1).s, n) # Take(xs_read(xs, e2).s, n)

\* the name of the id found for a name present is that name
RoundTrip ==
    ( /\ xs.last.op = "name"
      /\ xs.last.after.op = "id"
      /\ xs.HAVE_LIBXENSTORE
      /\ xs.last.up /\ xs.last.after.up
      /\ \E e \in XsEntries : xs_read(xs, e) = xs.last.after.name
      /\ ~xs.last.after.name.null ) =>
        /\ xs.last.rc = VMI_SUCCESS
        /\ xs.last.name = xs.last.after.name

Pv == ctx.pc = "run" /\ ~ctx.hvm
Pv32 == Pv /\ ctx.addr_width # 8

\* C11: a read that follows a successful write of the same register of the
\* same vcpu, and that the backend answers, returns success and the value
\* written
C11_SetThenGet ==
    ( /\ ctx.pc = "run"
      /\ ctx.last.op = "get"
      /\ ctx.last.after.op = "set"
      /\ ctx.last.after.rc = VMI_SUCCESS
      /\ ctx.last.ok ) =>
        /\ ctx.last.rc = VMI_SUCCESS
        /\ ctx.last.value = ctx.last.after.value

\* the registers the claim names as outside what a paravirtualized guest has
SegmentLimits ==
    { "CS_LIMIT", "DS_LIMIT", "ES_LIMIT", "FS_LIMIT", "GS_LIMIT", "SS_LIMIT",
      "TR_LIMIT", "LDTR_LIMIT", "IDTR_LIMIT", "GDTR_LIMIT" }
SegmentAttributes ==
    { "CS_ARBYTES", "DS_ARBYTES", "ES_ARBYTES", "FS_ARBYTES", "GS_ARBYTES",
      "SS_ARBYTES", "TR_ARBYTES", "LDTR_ARBYTES" }
Msrs ==
    { "SYSENTER_CS", "SYSENTER_ESP", "SYSENTER_EIP", "SHADOW_GS",
      "MSR_FLAGS", "MSR_LSTAR", "MSR_CSTAR", "MSR_SYSCALL_MASK", "MSR_EFER",
      "MSR_TSC_AUX" }
R8ToR15 == { "R8", "R9", "R10", "R11", "R12", "R13", "R14", "R15" }

\* the registers outside what the kind of guest has
Unsupported ==
    IF ctx.hvm
    THEN IF ctx.DECLARE_HVM_SAVE_TYPE_COMPAT THEN {} ELSE { "MSR_TSC_AUX" }
    ELSE (Registers \ DOMAIN (IF ctx.addr_width = 8 THEN Pv64GetField
                              ELSE Pv32GetField))
         \cup SegmentLimits \cup SegmentAttributes \cup Msrs \cup { "TSC" }
         \cup (IF ctx.addr_width = 8 THEN {} ELSE R8ToR15)

\* C12: a read or a write of a register outside what the kind of guest has
\* returns failure, and a read that fails leaves the caller's value as it was
C12_UnsupportedFails ==
    ( ctx.pc = "run" /\ ctx.last.op # "none" ) =>
        /\ ctx.last.reg \in Unsupported => ctx.last.rc = VMI_FAILURE
        /\ ( ctx.last.op = "get" /\ ctx.last.rc = VMI_FAILURE ) =>
              ctx.last.value = ValueBefore
        /\ ( ctx.last.op = "get" /\ ctx.last.after.op = "set"
             /\ ctx.last.reg \in Unsupported ) =>
              ctx.last.after.rc = VMI_FAILURE

\* R8 of a 32-bit paravirtualized guest is read, the backend handing out
\* the context, which holds another value than the caller's
C12_Witness ==
    /\ Pv32
    /\ ctx.last.op = "get"
    /\ ctx.last.reg = "R8"
    /\ ctx.last.cpu \in DOMAIN ctx.guest
    /\ ctx.last.ok
    /\ ctx.last.rc = VMI_FAILURE
    /\ ctx.last.value = ValueBefore


StoredOs(o) ==
    [ version |-> o.windows_instance.version,
      windows |-> << o.windows_instance.tasks_offset,
                     o.windows_instance.pdbase_offset,
                     o.windows_instance.pid_offset,
                     o.windows_instance.pname_offset >>,
      linux |-> << o.linux_instance.tasks_offset, o.linux_instance.mm_offset,
                   o.linux_instance.pid_offset, o.linux_instance.name_offset,
                   o.linux_instance.pgd_offset >> ]

\* C22: once the OS of an instance is detected, no call of vmi_get_offset
\* (with any name), vmi_get_ostype, vmi_get_winver, vmi_get_winver_str,
\* vmi_get_memsize or vmi_get_num_vcpus changes a stored OS offset or the
\* detected version.
C22_AccessorsFreezeOffsets ==
    [][ (os.pc = "run" /\ os.os_type # VMI_OS_UNKNOWN)
            => StoredOs(os') = StoredOs(os) ]_vars

\* C23: xen_release_memory(NULL, length) issues no unmap request and
\* changes nothing the backend sees: the frames the call holds mapped, the
\* backend's count of mappings and guest memory are as before.
C23_ReleaseNullIsNoop ==
    put.pc # "idle" =>
        LET r == xen_release_memory(put, {})
        IN  /\ r.nrel = put.nrel
            /\ r.memory = put.memory
            /\ r.hv_maps = put.hv_maps
            /\ r.frames = put.frames


\* C24: every configuration key (linux_tasks, linux_mm, linux_name,
\* linux_pid, linux_pgd, linux_addr, win_ntoskrnl, win_tasks, win_pdbase,
\* win_pid, win_peb, win_iba, win_ph, win_pname, win_kdvb, win_sysproc,
\* ostype, sysmap) alone as a token is scanned, by the longest match and the
\* earliest rule on ties, as one token whose text is the key, which is a
\* keyword's token of its own and no generic word, number or file name.
C24_KeysAreKeywords ==
    \A k \in ConfigKeys :
        (lex.pc = "done" /\ lex.input0 \in { k, k \o << "\n" >> }) =>
            /\ Len(lex.tokens) = 1
            /\ lex.tokens[1].yytext = k
            /\ lex.tokens[1].tok \notin LexGeneric
            /\ \E i \in DOMAIN Rules :
                  /\ Rules[i] = Keyword(k, lex.tokens[1].tok)
                  /\ \A j \in DOMAIN Rules \ { i } :
                        Rules[j].tok # lex.tokens[1].tok


\* the keys of each table events_destroy walks: the three tables of the
\* instance and, for every page, whether it has a byte-event table and the
\* keys of that table
TableKeys(s) ==
    [ mem |-> DOMAIN s.mem_events,
      reg |-> DOMAIN s.reg_events,
      ss |-> DOMAIN s.ss_events,
      byte |-> [ p \in DOMAIN s.mem_events |->
                   << s.mem_events[p].has_byte_events,
                      DOMAIN s.mem_events[p].byte_events >> ] ]

\* C25: while the instance is shutting down, vmi_clear_event on a
\* registered event takes no entry out of a table events_destroy walks: the
\* keys of reg_events, ss_events and mem_events, and the existence and the
\* keys of every page's byte-event table, are the same after the clear
\* whatever the backend answers.
C25_TeardownClearKeepsTables ==
    shutting_down =>
        \A e \in EventIds :
            Referenced(Cur, e) =>
                \A accept \in IF event[e].type = VMI_EVENT_SINGLESTEP
                              THEN [ Vcpus -> BOOLEAN ] ELSE BOOLEAN :
                    \A order \in IF event[e].type = VMI_EVENT_MEMORY
                                 THEN Orders(ByteKeys(event[e]))
                                 ELSE { << >> } :
                        TableKeys(vmi_clear_event(Cur, e, accept, order).s)
                            = TableKeys(Cur)


\* memory events registered and cleared while register events are
\* registered, without teardown
NextRegistry ==
    \/ \E e \in Callable(MemEventIds) : RegisterMemEvent(e)
    \/ \E e \in Callable(MemEventIds) : ClearMemEvent(e)
    \/ \E e \in Callable(RegEventIds) : RegisterRegEvent(e)

SpecRegistry == Init /\ [][NextRegistry]_vars

\* the key a registration asks for is taken: the register is in reg_events,
\* the page has a page-level event, or the byte is in the page's byte table
KeyTaken(obj) ==
    IF obj.type = VMI_EVENT_REGISTER
    THEN obj.reg \in DOMAIN reg_events
    ELSE /\ PageKey(obj.physical_address) \in DOMAIN mem_events
         /\ Occupied(obj)

\* C26: a registration whose key is taken (the register is in reg_events, a
\* page-level event is on the page, a byte event is at the byte) fails
\* without any call of the backend: what is programmed for every page and
\* every register, and every table, is as before.
C26_RejectedAsksNothing ==
    \A e \in MemEventIds \cup RegEventIds :
      \A obj \in Passed(e, IF e \in MemEventIds THEN MemObjInputs
                           ELSE RegObjInputs) :
        \A accept \in BOOLEAN :
          LET s == [ Cur EXCEPT !.event[e] = obj ]
              r == vmi_register_event(s, e, accept)
          IN  (pc = "run" /\ KeyTaken(obj)) =>
                  /\ r.rc = VMI_FAILURE
                  /\ r.s.ncalls = 0
                  /\ r.s.hv_mem = hv_mem
                  /\ r.s.hv_reg = hv_reg
                  /\ r.s.mem_events = mem_events
                  /\ r.s.reg_events = reg_events

\* a byte registration has just been rejected because another event holds
\* its byte, on a page that also has a page-level event, while a register
\* is registered: the backend was not called
C26_Witness ==
    /\ last.op = "vmi_register_event" /\ last.rc = VMI_FAILURE
    /\ last.ncalls = 0
    /\ last.obj.type = VMI_EVENT_MEMORY
    /\ last.obj.granularity = VMI_MEMEVENT_BYTE
    /\ last.obj.callback # NULL
    /\ PageKey(last.obj.physical_address) \in DOMAIN mem_events
    /\ LET page == mem_events[PageKey(last.obj.physical_address)]
       IN  /\ last.obj.physical_address \in DOMAIN page.byte_events
           /\ page.byte_events[last.obj.physical_address] # last.ev
    /\ reg_events # EmptyTable


\* C27: register_mem_event for an event whose page has no descriptor asks
\* the backend once, to program the event's in_access on the page.  When
\* the backend accepts, the call returns success and mem_events has one
\* more descriptor, keyed by physical_address >> 12, whose access_flag is
\* in_access and which holds that registration alone: as its page-level
\* event with no byte table, or as the only entry of a new byte table with
\* no page-level event.  When the backend refuses, the call returns failure
\* and mem_events is as before.
C27_FirstRegistrationOnPage ==
    \A e \in MemEventIds : \A obj \in Passed(e, MemObjInputs) :
      \A accept \in BOOLEAN :
        LET s == [ Cur EXCEPT !.event[e] = obj ]
            r == register_mem_event(s, e, accept)
            asked == register_mem_event(s, e, TRUE).s.hv_mem
            page_key == PageKey(obj.physical_address)
        IN  (pc = "run" /\ page_key \notin DOMAIN mem_events) =>
              /\ r.s.ncalls = 1
              /\ asked = Insert(hv_mem, page_key, obj.in_access)
              /\ accept =>
                    /\ r.rc = VMI_SUCCESS
                    /\ r.s.hv_mem = asked
                    /\ r.s.mem_events
                         = Insert(mem_events, page_key,
                             IF obj.granularity = VMI_MEMEVENT_PAGE
                             THEN [ access_flag |-> obj.in_access,
                                    event |-> e,
                                    has_byte_events |-> FALSE,
                                    byte_events |-> EmptyTable ]
                             ELSE [ access_flag |-> obj.in_access,
                                    event |-> NULL,
                                    has_byte_events |-> TRUE,
                                    byte_events |->
                                        (obj.physical_address :> e) ])
              /\ ~accept =>
                    /\ r.rc = VMI_FAILURE
                    /\ r.s.nrej = 1
                    /\ r.s.mem_events = mem_events
                    /\ r.s.hv_mem = hv_mem

\* a byte event has just been registered with write access on a page that
\* had no descriptor while another page has one: the new descriptor has the
\* mask write, no page-level event and a byte table with that one entry
C27_Witness ==
    /\ last.op = "vmi_register_event" /\ last.rc = VMI_SUCCESS
    /\ last.ncalls = 1
    /\ last.obj.type = VMI_EVENT_MEMORY
    /\ last.obj.granularity = VMI_MEMEVENT_BYTE
    /\ last.obj.in_access = VMI_MEMACCESS_W
    /\ Cardinality(DOMAIN mem_events) = 2
    /\ LET page == mem_events[PageKey(last.obj.physical_address)]
       IN  /\ page.access_flag = VMI_MEMACCESS_W
           /\ page.event = NULL
           /\ page.byte_events = (last.obj.physical_address :> last.ev)
    /\ hv_mem[PageKey(last.obj.physical_address)] = VMI_MEMACCESS_W


\* the calls xen_set_vcpureg_hvm makes when none fails
HvmSetCalls ==
    << "xc_domain_hvm_getcontext(0, 0)", "xc_domain_hvm_getcontext(buf, size)",
       "xc_domain_hvm_setcontext(buf, size)" >>

\* C28: a write of a supported register of a hardware-virtualized guest
\* asks for the size of the context, fetches the whole context, and puts
\* it back, in that order and each at most once, stopping at the first
\* that fails.  The context put back is the context fetched with the field
\* of the register, in the CPU record of the vcpu written, set to the
\* value: every other field of that record and every other vcpu's record
\* is as fetched.  When the context has no CPU record of the vcpu the
\* write fails and nothing is put back.
C28_HvmSetRoundTrip ==
    (ctx.pc = "run" /\ ctx.hvm /\ ctx.last.op = "set"
        /\ ctx.last.reg \in HvmCases(ctx)) =>
        LET reg == ctx.last.reg
            cpu == ctx.last.cpu
        IN  /\ \E n \in 1 .. 3 : ctx.calls = SubSeq(HvmSetCalls, 1, n)
            /\ Len(ctx.calls) = 3 <=> ctx.sent # << >>
            /\ ctx.sent # << >> =>
                  /\ ctx.fetched # << >>
                  /\ cpu \in DOMAIN ctx.fetched[1]
                  /\ DOMAIN ctx.sent[1] = DOMAIN ctx.fetched[1]
                  /\ \A v \in DOMAIN ctx.fetched[1] :
                        \A f \in DOMAIN ctx.fetched[1][v] :
                           ctx.sent[1][v][f]
                             = IF v = cpu /\ f = HvmSetField[reg]
                               THEN ctx.last.value
                               ELSE ctx.fetched[1][v][f]
                  /\ \A v \in DOMAIN ctx.fetched[1] :
                        DOMAIN ctx.sent[1][v] = DOMAIN ctx.fetched[1][v]
            /\ (ctx.fetched # << >> /\ cpu \notin DOMAIN ctx.fetched[1]) =>
                  /\ ctx.last.rc = VMI_FAILURE
                  /\ ctx.sent = << >>
                  /\ Len(ctx.calls) = 2
            /\ ctx.last.rc = VMI_SUCCESS =>
                  /\ ctx.sent # << >>
                  /\ ctx.guest = ctx.sent[1]

\* RBX of the second vcpu of a hardware-virtualized guest has been written
\* with success: three calls were made, and the context put back differs
\* from the one fetched in that field alone
C28_Witness ==
    /\ ctx.pc = "run" /\ ctx.hvm /\ ctx.last.op = "set"
    /\ ctx.last.rc = VMI_SUCCESS
    /\ ctx.last.reg = "RBX" /\ ctx.last.cpu = 1 /\ ctx.last.value = 5
    /\ ctx.calls = HvmSetCalls
    /\ ctx.sent[1][1]["rbx"] = 5
    /\ ctx.fetched[1][1]["rbx"] # 5
    /\ ctx.sent[1][0] = ctx.fetched[1][0]


\* C29: on a paravirtualized guest a write of CR3 leaves in the context
\* xen_pfn_to_cr3 of the value shifted right by XC_PAGE_SHIFT, in the layout
\* of the guest's width, and a read returns xen_cr3_to_pfn of what the
\* context holds shifted left by XC_PAGE_SHIFT; so the read conversion
\* applied to what the write conversion left of a page-aligned address is
\* that address, in the 64-bit and in the 32-bit layout, and a read of CR3
\* that follows a write handed to the hypervisor returns the address.
C29_Cr3RoundTrip ==
    /\ (Pv /\ ctx.last.op = "set" /\ ctx.last.reg = "CR3" /\ ctx.copy # << >>
           /\ ctx.last.value % (2 ^ XC_PAGE_SHIFT) = 0) =>
          LET p == ctx.last.value
              cpu == ctx.last.cpu
              stored == ctx.copy[1][cpu]["ctrlreg[3]"]
              read == xen_get_vcpureg([ ctx EXCEPT !.guest = ctx.copy[1] ],
                                      ValueBefore, "CR3", cpu, TRUE)
          IN  /\ stored = IF ctx.addr_width = 8
                          THEN xen_pfn_to_cr3_x86_64(p \div 2 ^ XC_PAGE_SHIFT)
                          ELSE xen_pfn_to_cr3_x86_32(p \div 2 ^ XC_PAGE_SHIFT)
              /\ read.rc = VMI_SUCCESS
              /\ read.value = p
              /\ read.value
                   = (IF ctx.addr_width = 8 THEN xen_cr3_to_pfn_x86_64(stored)
                      ELSE xen_cr3_to_pfn_x86_32(stored)) * 2 ^ XC_PAGE_SHIFT
    /\ (Pv /\ ~Pv32 /\ ctx.last.op = "get" /\ ctx.last.reg = "CR3"
           /\ ctx.last.ok /\ ctx.last.after.op = "set"
           /\ ctx.last.after.rc = VMI_SUCCESS
           /\ ctx.last.after.value % (2 ^ XC_PAGE_SHIFT) = 0) =>
          /\ ctx.last.rc = VMI_SUCCESS
          /\ ctx.last.value = ctx.last.after.value

\* CR3 of a 32-bit paravirtualized guest has been written with the highest
\* page-aligned address below 2^31: its frame number is in the context the
\* write left
C29_Witness ==
    /\ Pv32 /\ ctx.last.op = "set" /\ ctx.last.reg = "CR3"
    /\ ctx.last.rc = VMI_SUCCESS
    /\ ctx.last.value = 2147479552
    /\ ctx.copy # << >>
    /\ xen_cr3_to_pfn_x86_32(ctx.copy[1][ctx.last.cpu]["ctrlreg[3]"]) = 524287


\* the steps of xen_init on an instance, in order: event initialisation is
\* one of them when the instance asks for events
InitSteps(x) ==
    << "xc_interface_open", "xc_domain_getinfo", "OPEN_XS_DAEMON" >>
    \o (IF x.init_events THEN << "xen_events_init" >> ELSE << >>)
    \o << "xen_discover_guest_addr_width" >>

\* C30: when xen_init has returned success every step has succeeded, in
\* this order: the control handle was opened, the domain's info was
\* retrieved, the xenstore handle was opened, events were initialised if
\* the instance asks for events, and the guest's address width was
\* discovered; the instance's num_vcpus is the domain's max_vcpu_id plus
\* one and its hvm flag is the domain's.
C30_InitSucceedsOnlyIfAllSteps ==
    xen.pc = "inited" =>
        /\ xen.steps = InitSteps(xen)
        /\ xen.num_vcpus = xen.guest.max_vcpu_id + 1
        /\ xen.hvm = xen.guest.hvm


\* C31: vmi_shutdown_single_step in any state of the registry asks the
\* backend once.  When the backend accepts, the call returns success and
\* ss_events is empty, and a registration of any single-step event that
\* follows, the backend accepting, puts every vcpu it selects in ss_events
\* under that event and returns success when it selects one.  When the
\* backend refuses, the call returns failure and ss_events is as before.
C31_ShutdownSingleStep ==
    \A accept \in BOOLEAN :
      LET r == vmi_shutdown_single_step(Cur, accept)
          after == [ Release(r.s) EXCEPT !.ncalls = 0 ]
      IN  pc = "run" =>
            /\ r.s.ncalls = 1
            /\ accept =>
                  /\ r.rc = VMI_SUCCESS
                  /\ r.s.ss_events = EmptyTable
                  /\ \A e \in SsEventIds : \A vcpus \in SUBSET Vcpus :
                        LET q == vmi_register_event(
                                     [ after EXCEPT !.event[e] = SsObj(vcpus) ],
                                     e, [ v \in Vcpus |-> TRUE ])
                        IN  /\ DOMAIN q.s.ss_events = vcpus
                            /\ \A v \in vcpus : q.s.ss_events[v] = e
                            /\ q.s.ncalls = Cardinality(vcpus)
                            /\ vcpus # {} => q.rc = VMI_SUCCESS
            /\ ~accept =>
                  /\ r.rc = VMI_FAILURE
                  /\ r.s.ss_events = ss_events

\* vmi_shutdown_single_step has returned success on an instance that had
\* every vcpu in ss_events: the table is empty and no vcpu is stepping
C31_Witness ==
    /\ last.op = "vmi_shutdown_single_step" /\ last.rc = VMI_SUCCESS
    /\ last.stepping = Vcpus
    /\ last.ncalls = 1
    /\ ss_events = EmptyTable
    /\ hv_ss = {}


\* C32: clearing a single-step event leaves in ss_events, under the event
\* it has, every vcpu registered under another event, and has the backend
\* stop none of them
C32_ClearKeepsOtherEvents ==
    \A e \in SsEventIds : \A obj \in Passed(e, SsObjClearInputs) :
      \A accept \in [ Vcpus -> BOOLEAN ] :
        LET r == vmi_clear_event([ Cur EXCEPT !.event[e] = obj ], e, accept,
                                 << >>)
            own == { v \in DOMAIN ss_events : ss_events[v] = e }
        IN  pc = "run" =>
              /\ \A v \in DOMAIN ss_events \ own :
                    /\ v \in DOMAIN r.s.ss_events
                    /\ r.s.ss_events[v] = ss_events[v]
              /\ (hv_ss \cap (DOMAIN ss_events \ own)) \subseteq r.s.hv_ss


\* C33: vmi_clear_event on a memory event, whatever it returns, leaves the
\* in_access of every memory event object as it was before the call
C33_ClearMemKeepsInAccess ==
    \A e \in MemEventIds : \A obj \in Passed(e, MemObjClearInputs) :
      \A accept \in BOOLEAN : \A order \in Orders(ByteKeys(obj)) :
        LET s == [ Cur EXCEPT !.event[e] = obj ]
            r == vmi_clear_event(s, e, accept, order)
        IN  pc = "run" =>
              \A f \in MemEventIds :
                 s.event[f].type = VMI_EVENT_MEMORY =>
                    r.s.event[f].in_access = s.event[f].in_access


\* the registers the write for the kind of guest has a case for
SetSupported ==
    IF ctx.hvm THEN HvmCases(ctx)
    ELSE IF ctx.addr_width = 8 THEN DOMAIN Pv64SetField
    ELSE DOMAIN Pv32SetField

\* C34: a write of a register the kind of guest has no case for returns
\* failure, hands no context to the hypervisor and leaves the guest's
\* contexts as they were
C34_UnsupportedSetSendsNothing ==
    ( ctx.pc = "run" /\ ctx.last.op = "set"
      /\ ctx.last.reg \notin SetSupported ) =>
        /\ ctx.last.rc = VMI_FAILURE
        /\ ctx.sent = << >>
        /\ \A i \in DOMAIN ctx.calls :
              ctx.calls[i] \notin { "xc_domain_hvm_setcontext(buf, size)",
                                    "xc_vcpu_setcontext" }
        /\ ctx.fetched # << >> => ctx.guest = ctx.fetched[1]


\* execute-on-write together with another mask that is not none
Incompatible(a, b) ==
    /\ a # b
    /\ VMI_MEMACCESS_N \notin { a, b }
    /\ VMI_MEMACCESS_X_ON_WRITE \in { a, b }

C36_NameSuccessOnlyIfStored ==
    xs.last.op = "domainname" =>
        LET read == /\ xs.HAVE_LIBXENSTORE /\ xs.last.xshandle
                    /\ ~xs_read(xs, FormatLu(xs.last.domid)).null
        IN  /\ xs.last.rc = VMI_SUCCESS => ~xs.last.name.null
            /\ ~read => xs.last.rc = VMI_FAILURE
            /\ xs.last.vmi_get_name.null <=> ~read


\* every call of libxc succeeds
AllOk == [ size |-> TRUE, fetch |-> TRUE, put |-> TRUE ]

\* C37: for a guest of any kind and any of its vcpus, every call of libxc
\* succeeding, a read of a register returns success exactly when a write
\* of that register does
C37_GetSetSameRegisters ==
    ctx.pc = "run" =>
        \A reg \in Registers : \A cpu \in DOMAIN ctx.guest :
           xen_get_vcpureg(ctx, ValueBefore, reg, cpu, TRUE).rc = VMI_SUCCESS
              <=> xen_set_vcpureg(ctx, 4097, reg, cpu, AllOk).rc = VMI_SUCCESS

\* LDTR_BASE of a 32-bit paravirtualized guest has been written and then
\* read, both with success
C37_Witness ==
    /\ Pv32
    /\ ctx.last.op = "get"
    /\ ctx.last.reg = "LDTR_BASE"
    /\ ctx.last.ok
    /\ ctx.last.rc = VMI_SUCCESS
    /\ ctx.last.after.op = "set"
    /\ ctx.last.after.rc = VMI_SUCCESS


\* the event objects a caller hands to the public functions, and the
\* answers of the backend to the requests a call may make for them
ApiObjInputs(e) ==
    IF e \in MemEventIds THEN MemObjInputs \cup MemObjClearInputs
    ELSE IF e \in RegEventIds THEN RegObjInputs \cup RegObjClearInputs
    ELSE SsObjInputs \cup SsObjClearInputs
ApiAcceptInputs(e) ==
    IF e \in SsEventIds THEN [ Vcpus -> BOOLEAN ] ELSE BOOLEAN

\* C38: on an instance without VMI_INIT_EVENTS, vmi_register_event,
\* vmi_clear_event, vmi_events_listen, vmi_stop_single_step_vcpu and
\* vmi_shutdown_single_step return failure and leave the instance, the
\* event objects and the hypervisor as they were, the backend not called;
\* on any instance vmi_register_event does so for no event and for an
\* event without callback
C38_NoEventsInstanceFails ==
    pc = "run" =>
      /\ VMI_INIT_EVENTS \notin init_mode =>
            /\ \A e \in EventIds : \A obj \in Passed(e, ApiObjInputs(e)) :
                 \A accept \in ApiAcceptInputs(e) :
                   LET s == [ Cur EXCEPT !.event[e] = obj ]
                   IN  /\ vmi_register_event(s, e, accept)
                            = Ret(VMI_FAILURE, s)
                       /\ vmi_clear_event(s, e, accept, << >>)
                            = Ret(VMI_FAILURE, s)
            /\ \A e \in SsEventIds : \A obj \in Passed(e, SsObjClearInputs) :
                 \A vcpu \in Vcpus : \A accept \in BOOLEAN :
                   LET s == [ Cur EXCEPT !.event[e] = obj ]
                   IN  vmi_stop_single_step_vcpu(s, e, vcpu, accept)
                          = Ret(VMI_FAILURE, s)
            /\ \A accept \in BOOLEAN :
                  /\ vmi_shutdown_single_step(Cur, accept)
                        = Ret(VMI_FAILURE, Cur)
                  /\ \A timeout \in { 0, 500 } :
                        vmi_events_listen(Cur, timeout, accept)
                           = Ret(VMI_FAILURE, Cur)
      /\ \A accept \in BOOLEAN :
            vmi_register_event(Cur, NULL, accept) = Ret(VMI_FAILURE, Cur)
      /\ \A e \in EventIds : \A obj \in Passed(e, ApiObjInputs(e)) :
           \A accept \in ApiAcceptInputs(e) :
             LET s == [ Cur EXCEPT !.event[e] = obj ]
             IN  obj.callback = NULL =>
                    vmi_register_event(s, e, accept) = Ret(VMI_FAILURE, s)

\* on an instance without VMI_INIT_EVENTS a register event with a callback
\* has just been handed to vmi_register_event, which returned failure
\* without a call of the backend, every table being empty
C38_Witness ==
    /\ VMI_INIT_EVENTS \notin init_mode
    /\ last.op = "vmi_register_event" /\ last.rc = VMI_FAILURE
    /\ last.ev # NULL
    /\ last.obj.type = VMI_EVENT_REGISTER
    /\ last.obj.callback # NULL
    /\ last.ncalls = 0
    /\ reg_events = EmptyTable /\ hv_reg = EmptyTable


\* the pages the bytes paddr .. paddr + count - 1 lie in
PagesTouched(paddr, count) ==
    IF count = 0 THEN 0
    ELSE (paddr + count - 1) \div page_size - paddr \div page_size + 1

\* an iteration of the loop writes at least one byte and leaves less to
\* write, by what it wrote
PutProgress ==
    [][ put.pc = "copy" =>
           LET write_len == put'.buf_offset - put.buf_offset
           IN  /\ write_len >= 1
               /\ put'.count = put.count - write_len
               /\ put'.count >= 0
               /\ put'.count < put.count ]_vars

\* a call with count 0 returns success and has mapped no frame
PutNothing ==
    put.count0 = 0 =>
        /\ put.ntry = 0 /\ put.nmap = 0
        /\ put.pc = "done" => put.rc = VMI_SUCCESS

\* C39 as stated: xen_put_memory returns for every address and count, each
\* iteration writing at least one byte and leaving less to write; when it
\* has returned, the loop has run once for each page the range touches;
\* with count 0 it returns success and maps nothing
C39_PutTerminatesInPages ==
    /\ <>(put.pc = "done")
    /\ PutProgress
    /\ [](put.pc = "done" =>
             put.ntry = PagesTouched(put.paddr, put.count0))
    /\ []PutNothing

\* C39, amended: as above, but the loop has run once for each page the range
\* touches when every mapping succeeded; when a mapping failed it has run
\* once for each page up to the one that failed, which is not written
C39_PutTerminates ==
    /\ <>(put.pc = "done")
    /\ PutProgress
    /\ [](put.pc = "done" =>
             /\ put.ntry <= PagesTouched(put.paddr, put.count0)
             /\ Len(put.slices) = put.nmap
             /\ put.rc = VMI_SUCCESS =>
                   /\ put.ntry = PagesTouched(put.paddr, put.count0)
                   /\ put.nmap = put.ntry
             /\ put.rc = VMI_FAILURE => put.nmap = put.ntry - 1)
    /\ []PutNothing

\* a call has returned success after more than one iteration, one for each
\* page its range touches, starting inside a page
C39_Witness ==
    /\ put.pc = "done" /\ put.rc = VMI_SUCCESS
    /\ put.ntry > 1
    /\ put.ntry = PagesTouched(put.paddr, put.count0)
    /\ put.paddr % page_size # 0
    /\ put.count = 0

====
